---- MODULE Spec2Model ----
(***************************************************************************)
(* ducknetview: the rate sampler (internal/probe, NetSampler) and the      *)
(* Bubble Tea model of internal/ui/model.go, as state machines; and the     *)
(* earlier ui of unnamed/part_002 under the same runtime.                  *)
(*                                                                         *)
(* Time is counted in ticks of 1/TicksPerSec second.  A float64 rate is    *)
(* kept as the exact reduced fraction [num, den] of bytes per second.      *)
(* uint64 counters are kept modulo Wrap, a scaled-down 2^64.               *)
(***************************************************************************)
EXTENDS Integers, Sequences, FiniteSets, TLC

\* ------------------------------------------------------------------ bounds
TicksPerSec == 2
MaxClock == 5
MaxCounter == 2
MaxLoCounter == 1
CounterBits == 3

Wrap == 2 ^ CounterBits

\* time.Time{} (the zero time) lies before every clock reading.
ZeroTime == 0

Names == {"eth0", "lo"}
NoName == ""

\* ------------------------------------------------------------ pure helpers
RECURSIVE GCD(_, _)
GCD(a, b) == IF b = 0 THEN a ELSE GCD(b, a % b)

\* n / d as a reduced fraction (n >= 0, d > 0).
Frac(n, d) == LET g == GCD(n, d) IN [num |-> n \div g, den |-> d \div g]

ZeroRate == [num |-> 0, den |-> 1]

Min(a, b) == IF a < b THEN a ELSE b
Max(a, b) == IF a > b THEN a ELSE b

Range(s) == {s[i] : i \in DOMAIN s}

\* ------------------------------------------------------------------- state
VARIABLES
    now,        \* the clock read by time.Now(), in ticks
    last,       \* NetSampler.last: name -> IOCountersStat of the last success
    lastAt,     \* NetSampler.lastAt
    ret,        \* what the latest Sample() returned: [snap, err]
    prev,       \* the sampler's (last, lastAt) when the latest Sample() began
    base,       \* what the latest successful Sample() read, and failures since
    model,      \* the ui Model (m) the Bubble Tea loop holds
    call,       \* the latest Update call: its message, the model it got, its command
    hlog,       \* the samples appended to the histories, and the widths then
    clamp,      \* the latest direct ClampHistory call: [s, max, out]
    rt,         \* the Bubble Tea runtime: armed timers and poll tasks in flight
    view,       \* the latest direct render call: [m, out]
    probe,      \* the latest TopProcsByConnections call: connections read, map, result
    legacy      \* the earlier ui (unnamed/part_002): its Model, runtime and latest Update call

samplerVars == <<now, last, lastAt, ret, prev, base>>
uiVars == <<model, call, hlog, clamp, rt, view, probe, legacy>>
vars == <<now, last, lastAt, ret, prev, base, model, call, hlog, clamp, rt, view, probe, legacy>>

\* ---------------------------------------------------------- rate sampler
\* c.BytesRecv - prev.BytesRecv on uint64.
Sub64(a, b) == (a - b + Wrap) % Wrap

\* dt := now.Sub(s.lastAt).Seconds(); if dt <= 0 { dt = 1 }   (in ticks)
ClampLtOneDt(t, at) == IF t - at < TicksPerSec THEN TicksPerSec ELSE t - at
SampleDt(t, at) == IF t - at <= 0 THEN TicksPerSec ELSE t - at

\* float64(delta) / dt, dt in seconds = ticks / TicksPerSec.
NoDivRate(delta, dtTicks) == Frac(delta, 1)
RateOf(delta, dtTicks) == Frac(delta * TicksPerSec, dtTicks)

\* The IfaceInfo built for one net.Interface (lines 78-99).
WarmColdIfaceInfo(name, cur, lst, dtTicks) ==
    IF name \in DOMAIN cur
    THEN [Name |-> name,
          RxTotal |-> cur[name].BytesRecv,
          TxTotal |-> cur[name].BytesSent,
          RxBps |-> IF name \in DOMAIN lst
                    THEN RateOf(Sub64(cur[name].BytesRecv, lst[name].BytesRecv), dtTicks)
                    ELSE RateOf(cur[name].BytesRecv, dtTicks),
          TxBps |-> IF name \in DOMAIN lst
                    THEN RateOf(Sub64(cur[name].BytesSent, lst[name].BytesSent), dtTicks)
                    ELSE RateOf(cur[name].BytesSent, dtTicks)]
    ELSE [Name |-> name, RxTotal |-> 0, TxTotal |-> 0,
          RxBps |-> ZeroRate, TxBps |-> ZeroRate]
MakeIfaceInfo(name, cur, lst, dtTicks) ==
    IF name \in DOMAIN cur
    THEN [Name |-> name,
          RxTotal |-> cur[name].BytesRecv,
          TxTotal |-> cur[name].BytesSent,
          RxBps |-> IF name \in DOMAIN lst
                    THEN RateOf(Sub64(cur[name].BytesRecv, lst[name].BytesRecv), dtTicks)
                    ELSE ZeroRate,
          TxBps |-> IF name \in DOMAIN lst
                    THEN RateOf(Sub64(cur[name].BytesSent, lst[name].BytesSent), dtTicks)
                    ELSE ZeroRate]
    ELSE [Name |-> name, RxTotal |-> 0, TxTotal |-> 0,
          RxBps |-> ZeroRate, TxBps |-> ZeroRate]

EmptySnapshot == [Ifaces |-> <<>>, TakenAt |-> ZeroTime]

\* What the operating system may report to one Sample() call.
\* net.Interfaces(): the interfaces in enumeration order.
IfsChoices ==
    {<<>>} \cup {<<n>> : n \in Names}
           \cup {<<p[1], p[2]>> : p \in {q \in Names \X Names : q[1] # q[2]}}

Stat(max) == [BytesRecv : 0..max, BytesSent : 0..max]

\* gnet.IOCounters(true) folded into the map cur (lines 62-69).  The loopback
\* interface receives what it sends, and carries little.
CounterChoices ==
    {c \in UNION {[D -> Stat(MaxCounter)] : D \in SUBSET Names} :
        "lo" \in DOMAIN c => /\ c["lo"].BytesRecv = c["lo"].BytesSent
                             /\ c["lo"].BytesRecv <= MaxLoCounter}

\* No Sample() call has returned a value that is still held.
NoRet == [valid |-> FALSE, snap |-> EmptySnapshot, err |-> FALSE]
NoPrev == [last |-> <<>>, lastAt |-> ZeroTime]

\* No Sample() call has succeeded yet.
NoBase == [last |-> <<>>, at |-> ZeroTime, fails |-> 0, was |-> <<>>]

NewNetSampler ==
    /\ last = <<>>
    /\ lastAt = ZeroTime

\* Time passes between calls.
ClockTick ==
    /\ ret = NoRet
    /\ call.msg.kind = "none"
    /\ now < MaxClock
    /\ now' = now + 1
    /\ UNCHANGED <<last, lastAt, ret, prev, base, model, call, hlog, clamp, view, probe, legacy, rt>>

\* A Sample() call that fails: net.Interfaces() or gnet.IOCounters() returned
\* an error (lines 56-65); nothing of the sampler is written.
StampOnFail(l, at, t) == [last |-> l, lastAt |-> t]
SampleFailState(l, at, t) == [last |-> l, lastAt |-> at]
SampleFail ==
    /\ ret = NoRet
    /\ prev' = [last |-> last, lastAt |-> lastAt]
    /\ ret' = [valid |-> TRUE, snap |-> EmptySnapshot, err |-> TRUE]
    /\ last' = SampleFailState(last, lastAt, now).last
    /\ lastAt' = SampleFailState(last, lastAt, now).lastAt
    /\ base' = [base EXCEPT !.fails = 1, !.was = <<>>]
    /\ UNCHANGED <<now, model, call, hlog, clamp, view, probe, legacy, rt>>

\* A Sample() call that succeeds (lines 44-114).
SampleOk ==
    \E ifs \in IfsChoices, cur \in CounterChoices :
        /\ ret = NoRet
        /\ prev' = [last |-> last, lastAt |-> lastAt]
        /\ LET dt == SampleDt(now, lastAt)
               out == [i \in DOMAIN ifs |-> MakeIfaceInfo(ifs[i], cur, last, dt)]
           IN ret' = [valid |-> TRUE,
                      snap |-> [Ifaces |-> out, TakenAt |-> now],
                      err |-> FALSE]
        /\ last' = cur
        /\ lastAt' = now
        /\ base' = [last |-> cur, at |-> now, fails |-> 0,
                    was |-> <<[last |-> base.last, at |-> base.at, fails |-> base.fails]>>]
        /\ UNCHANGED <<now, model, call, hlog, clamp, view, probe, legacy, rt>>

\* The caller (refreshCmd) takes the returned pair; the call is over.
SampleReturn ==
    /\ ret # NoRet
    /\ ret' = NoRet
    /\ prev' = NoPrev
    /\ base' = [base EXCEPT !.was = <<>>]
    /\ UNCHANGED <<now, last, lastAt, model, call, hlog, clamp, view, probe, legacy, rt>>

SamplerInit ==
    /\ now = 1
    /\ NewNetSampler
    /\ ret = NoRet
    /\ prev = NoPrev
    /\ base = NoBase

\* ---------------------------------------- process ranking: probe/procs.go
\* The connections one call reads, and the largest limit a caller passes.
MaxConns == 7
MaxLimit == 3

\* c.Pid of a connection (0: no owning process) and c.Status.
ConnPids == {0, 10, 50, 99}
Statuses == {"LISTEN", "ESTABLISHED"}
Limits == (0 - 1)..MaxLimit

\* p.Name(): best effort, "" when the name cannot be read (lines 41-47).
ProcessName(pid) == IF pid = 99 THEN <<>> ELSE <<"s", "s", "h", "d">>

\* No call is in progress.
NoProbe ==
    [pc |-> "none", limit |-> 0, err |-> FALSE,
     conns |-> [pid \in ConnPids |-> [n |-> 0, listen |-> 0]],
     m |-> <<>>, out |-> <<>>]

\* The body of the loop over conns (lines 24-36).
CountConn(m, pid, status) ==
    IF pid <= 0 THEN m
    ELSE LET pn == IF pid \in DOMAIN m THEN m[pid]
                   ELSE [PID |-> pid, Name |-> <<>>, ConnCount |-> 0, ListenCount |-> 0]
             pn1 == [pn EXCEPT !.ConnCount = @ + 1]
             pn2 == IF status = "LISTEN" THEN [pn1 EXCEPT !.ListenCount = @ + 1] ELSE pn1
         IN [p \in DOMAIN m \cup {pid} |-> IF p = pid THEN pn2 ELSE m[p]]

\* The comparison of sort.Slice with the pids compared downward.
TieByPidDescLess(a, b) ==
    IF a.ConnCount # b.ConnCount THEN a.ConnCount > b.ConnCount ELSE a.PID > b.PID

\* The less function of sort.Slice (lines 51-56).
ProcLess(a, b) ==
    IF a.ConnCount # b.ConnCount THEN a.ConnCount > b.ConnCount ELSE a.PID < b.PID

\* sort.Slice over the entries gathered from the map, whose iteration order
\* is unspecified: ProcLess orders entries of distinct pids totally, so
\* every order of iteration sorts to the same slice.
RECURSIVE SortProcs(_)
SortProcs(S) ==
    IF S = {} THEN <<>>
    ELSE LET first == CHOOSE a \in S : \A b \in S \ {a} : ProcLess(a, b)
         IN <<first>> \o SortProcs(S \ {first})

\* The loop over the map (lines 39-49): the name is looked up when empty.
Entries(m) ==
    {IF m[pid].Name = <<>> THEN [m[pid] EXCEPT !.Name = ProcessName(pid)] ELSE m[pid] :
        pid \in DOMAIN m}

\* out[:limit] (lines 58-60).
Truncate(out, limit) ==
    IF limit > 0 /\ Len(out) > limit THEN SubSeq(out, 1, limit) ELSE out

\* TopProcsByConnections after its loop over conns has filled m.
TopProcsByConnections(m, limit) == Truncate(SortProcs(Entries(m)), limit)

ProbeInit == probe = NoProbe

\* ------------------------------------------------ UI model: model.go
\* Scaled-down stand-ins for the 30 and 200 of max(30, min(200, m.w/2)).
HistFloor == 2
HistCeil == 4

tabOverview == 0
tabIfaces == 1
tabPorts == 2
tabProcs == 3

NoErr == ""

\* ifaceList (bubbles list.Model) as its items' names and its Index().
NewList == [items |-> <<>>, index |-> 0]
ListSetItems(l, items) == [l EXCEPT !.items = items]
ListSelect(l, i) == [l EXCEPT !.index = i]
\* SelectedItem(): nil (NoName here) when the index is out of range.
ListSelectedItem(l) ==
    IF l.index < 0 \/ Len(l.items) = 0 \/ Len(l.items) <= l.index
    THEN NoName
    ELSE l.items[l.index + 1]
\* list.Update(msg): cursor keys move within the items; esc asks to quit.
ListUpdate(l, msg) ==
    IF msg.kind # "key" THEN [list |-> l, cmd |-> <<>>]
    ELSE IF msg.key = "down"
    THEN [list |-> [l EXCEPT !.index =
                      IF l.index + 1 < Len(l.items) THEN l.index + 1
                      ELSE IF l.index + 1 > Len(l.items) THEN 0
                      ELSE Max(0, Len(l.items) - 1)],
          cmd |-> <<>>]
    ELSE IF msg.key = "up"
    THEN [list |-> [l EXCEPT !.index = Max(0, l.index - 1)], cmd |-> <<>>]
    ELSE IF msg.key = "esc"
    THEN [list |-> l, cmd |-> <<"quit">>]
    ELSE [list |-> l, cmd |-> <<>>]

\* textinput.Model as its value and focus.
NewTextInput == [value |-> <<>>, focus |-> FALSE]

\* portsText, procsText: "" until a handler stores a rendered table.
NoText == [written |-> FALSE, nodata |-> FALSE, rows |-> <<>>]

NewModel ==
    [w |-> 0,
     activeTab |-> tabOverview,
     lastSnap |-> [Ifaces |-> <<>>, TakenAt |-> ZeroTime],
     err |-> NoErr,
     ifaceList |-> NewList,
     selectedIface |-> NoName,
     rxHist |-> <<>>,
     txHist |-> <<>>,
     ports |-> <<>>,
     procs |-> <<>>,
     portsSearch |-> NewTextInput,
     portsSearching |-> FALSE,
     portsQuery |-> <<>>,
     procsSearch |-> NewTextInput,
     procsSearching |-> FALSE,
     procsQuery |-> <<>>,
     portsText |-> NoText,
     procsText |-> NoText,
     externalIP |-> "",
     externalIPErr |-> NoErr,
     externalIPUpdatedAt |-> ZeroTime]

\* probe.ClampHistory (util.go).
KeepOldestHistory(s, max) ==
    IF max <= 0 THEN <<>>
    ELSE IF Len(s) <= max THEN s
    ELSE SubSeq(s, 1, max)
ClampHistory(s, max) ==
    IF max <= 0 THEN <<>>
    ELSE IF Len(s) <= max THEN s
    ELSE SubSeq(s, Len(s) - max + 1, Len(s))

\* maxHist := max(30, min(200, m.w/2))
MaxHist(w) == Max(HistFloor, Min(HistCeil, w \div 2))

\* case tea.WindowSizeMsg (lines 226-262): sizes only.
UpdateWindowSizeMsg(m, msg) ==
    [m |-> [m EXCEPT !.w = msg.Width], cmd |-> <<>>]

\* case externalIPMsg (lines 264-272).
ErrClobbersExternalIPMsg(m, msg, t) ==
    IF msg.err # NoErr
    THEN [m |-> [m EXCEPT !.externalIPErr = msg.err, !.externalIP = msg.ip],
          cmd |-> <<>>]
    ELSE [m |-> [m EXCEPT !.externalIP = msg.ip,
                          !.externalIPErr = NoErr,
                          !.externalIPUpdatedAt = t],
          cmd |-> <<>>]
UpdateExternalIPMsg(m, msg, t) ==
    IF msg.err # NoErr
    THEN [m |-> [m EXCEPT !.externalIPErr = msg.err], cmd |-> <<>>]
    ELSE [m |-> [m EXCEPT !.externalIP = msg.ip,
                          !.externalIPErr = NoErr,
                          !.externalIPUpdatedAt = t],
          cmd |-> <<>>]

\* case tickMsg (lines 274-279); t is time.Now() in ticks.
NoRearmAfterErrTickMsg(m, t) ==
    [m |-> m,
     cmd |-> <<"refresh">> \o (IF m.err = NoErr THEN <<"tick">> ELSE <<>>) \o
             (IF (t \div TicksPerSec) % 5 = 0
              THEN <<"fetchPorts", "fetchProcs">> ELSE <<>>)]
UpdateTickMsg(m, t) ==
    [m |-> m,
     cmd |-> <<"refresh", "tick">> \o
             (IF (t \div TicksPerSec) % 5 = 0
              THEN <<"fetchPorts", "fetchProcs">> ELSE <<>>)]

\* case extIPTickMsg (lines 281-282).
UpdateExtIPTickMsg(m) == [m |-> m, cmd |-> <<"fetchExternalIP", "extIPTick">>]

\* The reconciliation where a name found again moves the cursor to it but
\* the selection is read at the cursor's previous position.
StaleIndexReconcile(m, items) ==
    LET prevSel == m.selectedIface
        prevIndex == m.ifaceList.index
        l1 == ListSetItems(m.ifaceList, items)
        hits == {i \in DOMAIN items : items[i] = prevSel}
    IN IF m.selectedIface = NoName /\ Len(items) > 0
       THEN [list |-> ListSelect(l1, 0), name |-> items[1]]
       ELSE IF prevSel # NoName
       THEN [list |-> IF hits # {}
                      THEN ListSelect(l1, (CHOOSE i \in hits : \A j \in hits : i <= j) - 1)
                      ELSE l1,
             name |-> IF hits # {} /\ prevIndex >= 0 /\ prevIndex < Len(items)
                      THEN items[prevIndex + 1] ELSE m.selectedIface]
       ELSE IF prevIndex >= 0 /\ prevIndex < Len(items)
       THEN [list |-> ListSelect(l1, prevIndex), name |-> items[prevIndex + 1]]
       ELSE [list |-> l1, name |-> m.selectedIface]

\* The selection after SetItems(items) (lines 316-329): the list with its
\* cursor, and selectedIface.
ResetToFirstReconcile(m, items) ==
    LET l1 == ListSetItems(m.ifaceList, items)
    IN IF Len(items) > 0
       THEN [list |-> ListSelect(l1, 0), name |-> items[1]]
       ELSE [list |-> l1, name |-> m.selectedIface]
Reconcile(m, items) ==
    LET prevSel == m.selectedIface
        prevIndex == m.ifaceList.index
        l1 == ListSetItems(m.ifaceList, items)
        hits == {i \in DOMAIN items : items[i] = prevSel}
    IN IF m.selectedIface = NoName /\ Len(items) > 0
       THEN [list |-> ListSelect(l1, 0), name |-> items[1]]
       ELSE IF prevSel # NoName
       THEN [list |-> IF hits # {}
                      THEN ListSelect(l1, (CHOOSE i \in hits : \A j \in hits : i <= j) - 1)
                      ELSE l1,
             name |-> m.selectedIface]
       ELSE IF prevIndex >= 0 /\ prevIndex < Len(items)
       THEN [list |-> ListSelect(l1, prevIndex), name |-> items[prevIndex + 1]]
       ELSE [list |-> l1, name |-> m.selectedIface]

\* The history append that takes the first interface of the snapshot,
\* selected or not.
FirstIfaceAppendHistory(m, ifaces) ==
    IF ifaces = <<>> THEN m
    ELSE [m EXCEPT
            !.rxHist = ClampHistory(Append(m.rxHist, ifaces[1].RxBps), MaxHist(m.w)),
            !.txHist = ClampHistory(Append(m.txHist, ifaces[1].TxBps), MaxHist(m.w))]

\* The history append for the selected interface (lines 331-341).
AppendHistory(m, ifaces) ==
    LET hits == {i \in DOMAIN ifaces : ifaces[i].Name = m.selectedIface}
    IN IF hits = {} THEN m
       ELSE LET ii == ifaces[CHOOSE i \in hits : \A j \in hits : i <= j]
            IN [m EXCEPT
                  !.rxHist = ClampHistory(Append(m.rxHist, ii.RxBps), MaxHist(m.w)),
                  !.txHist = ClampHistory(Append(m.txHist, ii.TxBps), MaxHist(m.w))]

\* case snapMsg (lines 284-350).
UpdateSnapMsg(m, msg) ==
    LET snap == msg.snap
        items == [i \in DOMAIN snap.Ifaces |-> snap.Ifaces[i].Name]
        sel == Reconcile(m, items)
        m1 == [m EXCEPT !.lastSnap = snap,
                        !.err = NoErr,
                        !.ifaceList = sel.list,
                        !.selectedIface = sel.name]
    IN [m |-> AppendHistory(m1, snap.Ifaces), cmd |-> <<>>]

\* case errMsg (lines 366-368).
BlankOnErrMsg(m, msg) ==
    [m |-> [m EXCEPT !.err = msg.err,
                     !.lastSnap = [Ifaces |-> <<>>, TakenAt |-> ZeroTime],
                     !.rxHist = <<>>, !.txHist = <<>>],
     cmd |-> <<>>]
UpdateErrMsg(m, msg) == [m |-> [m EXCEPT !.err = msg.err], cmd |-> <<>>]

\* Scaled-down stand-in for textinput's CharLimit = 64 (lines 110, 115).
InputLimit == 2

\* The printable keys the keyboard can send.
Runes == {"a", "q", "/", " "}

\* strings.TrimSpace on a sequence of characters.
RECURSIVE TrimLeft(_)
TrimLeft(v) == IF v # <<>> /\ Head(v) = " " THEN TrimLeft(Tail(v)) ELSE v
RECURSIVE TrimRight(_)
TrimRight(v) ==
    IF v # <<>> /\ v[Len(v)] = " " THEN TrimRight(SubSeq(v, 1, Len(v) - 1)) ELSE v
TrimSpace(v) == TrimRight(TrimLeft(v))

\* textinput: SetValue, and Update(msg) of a focused input with the cursor
\* at the end.
TextSetValue(ti, v) ==
    [ti EXCEPT !.value = IF Len(v) > InputLimit THEN SubSeq(v, 1, InputLimit) ELSE v]
TextInputUpdate(ti, msg) ==
    IF ~ti.focus \/ msg.kind # "key" THEN ti
    ELSE IF msg.key \in Runes
    THEN (IF Len(ti.value) < InputLimit
          THEN [ti EXCEPT !.value = Append(ti.value, msg.key)] ELSE ti)
    ELSE IF msg.key = "backspace"
    THEN [ti EXCEPT !.value =
            IF ti.value = <<>> THEN <<>> ELSE SubSeq(ti.value, 1, Len(ti.value) - 1)]
    ELSE IF msg.key = "ctrl+u" THEN [ti EXCEPT !.value = <<>>]
    ELSE ti

\* ------------------------------------------------- rendering the tables
\* Strings that are searched are sequences of one-character strings.
UpperCase == <<"A", "B", "C", "D", "E", "F", "G", "H", "I", "J", "K", "L", "M",
               "N", "O", "P", "Q", "R", "S", "T", "U", "V", "W", "X", "Y", "Z">>
LowerCase == <<"a", "b", "c", "d", "e", "f", "g", "h", "i", "j", "k", "l", "m",
               "n", "o", "p", "q", "r", "s", "t", "u", "v", "w", "x", "y", "z">>
Digits == <<"0", "1", "2", "3", "4", "5", "6", "7", "8", "9">>

\* strings.ToLower
ToLowerRune(c) ==
    IF \E i \in DOMAIN UpperCase : UpperCase[i] = c
    THEN LowerCase[CHOOSE i \in DOMAIN UpperCase : UpperCase[i] = c]
    ELSE c
ToLower(str) == [i \in DOMAIN str |-> ToLowerRune(str[i])]

\* strings.Contains
Contains(str, sub) ==
    \E i \in 0..(Len(str) - Len(sub)) : SubSeq(str, i + 1, i + Len(sub)) = sub

\* containsFold (lines 912-917)
CaseSensitiveContains(str, q) == IF q = <<>> THEN TRUE ELSE Contains(str, q)
containsFold(str, q) ==
    IF q = <<>> THEN TRUE ELSE Contains(ToLower(str), ToLower(q))

\* fmt.Sprintf("%d", n) for n >= 0
RECURSIVE Itoa(_)
Itoa(n) == IF n < 10 THEN <<Digits[n + 1]>>
           ELSE Itoa(n \div 10) \o <<Digits[(n % 10) + 1]>>

\* What the ports table shows for a row: "-" for an empty process name and
\* for the local addresses ":" and "0.0.0.0:0" (lines 708-715).
ShownProcess(p) == IF p.Process = <<>> THEN <<"-">> ELSE p.Process
ShownLocal(p) ==
    IF p.Local = <<":">> \/ p.Local = <<"0", ".", "0", ".", "0", ".", "0", ":", "0">>
    THEN <<"-">> ELSE p.Local

\* The loop over m.ports of renderPortsText (lines 709-739): the rows written,
\* top to bottom; column padding, truncation and highlight left aside.
RECURSIVE PortsRows(_, _)
PortsRows(ps, q) ==
    IF ps = <<>> THEN <<>>
    ELSE LET p == Head(ps)
             proc == ShownProcess(p)
             local == ShownLocal(p)
         IN IF q # <<>> /\ ~(containsFold(local, q) \/ containsFold(proc, q)
                                \/ containsFold(p.Proto, q))
            THEN PortsRows(Tail(ps), q)
            ELSE <<[proto |-> p.Proto, local |-> local,
                    pid |-> Itoa(p.PID), proc |-> proc]>> \o PortsRows(Tail(ps), q)

\* renderPortsText (lines 680-742)
renderPortsText(m) ==
    IF Len(m.ports) = 0 THEN [nodata |-> TRUE, rows |-> <<>>]
    ELSE [nodata |-> FALSE, rows |-> PortsRows(m.ports, m.portsQuery)]

\* What the process table shows for a name: "-" for an empty one.
ShownName(p) == IF p.Name = <<>> THEN <<"-">> ELSE p.Name

\* The loop over m.procs of renderProcsText (lines 782-805).
RECURSIVE ProcsRows(_, _)
ProcsRows(ps, q) ==
    IF ps = <<>> THEN <<>>
    ELSE LET p == Head(ps)
             name == ShownName(p)
         IN IF q # <<>> /\ ~(containsFold(name, q) \/ containsFold(Itoa(p.PID), q))
            THEN ProcsRows(Tail(ps), q)
            ELSE <<[pid |-> Itoa(p.PID), name |-> name,
                    conns |-> Itoa(p.ConnCount), listen |-> Itoa(p.ListenCount)]>>
                     \o ProcsRows(Tail(ps), q)

\* renderProcsText (lines 744-808)
renderProcsText(m) ==
    IF Len(m.procs) = 0 THEN [nodata |-> TRUE, rows |-> <<>>]
    ELSE [nodata |-> FALSE, rows |-> ProcsRows(m.procs, m.procsQuery)]

\* m.portsText = m.renderPortsText(), m.procsText = m.renderProcsText(): the
\* table stored for the viewport.
WrittenText(r) == [written |-> TRUE, nodata |-> r.nodata, rows |-> r.rows]
RenderedPorts(m) == [m EXCEPT !.portsText = WrittenText(renderPortsText(m))]
RenderedProcs(m) == [m EXCEPT !.procsText = WrittenText(renderProcsText(m))]

\* viewPorts, viewProcs (lines 642-645, 663-666): the table on the screen is
\* the stored one, rendered on the spot while none is stored.
ShownPortsText(m) == IF m.portsText.written THEN m.portsText ELSE RenderedPorts(m).portsText
ShownProcsText(m) == IF m.procsText.written THEN m.procsText ELSE RenderedProcs(m).procsText

\* case portsMsg where a ports result also clears the error shown.
ErrResettingUpdatePortsMsg(m, msg) ==
    [m |-> RenderedPorts([m EXCEPT !.ports = msg.ports, !.err = NoErr]), cmd |-> <<>>]

\* case portsMsg, case procsMsg (lines 352-364).
UpdatePortsMsg(m, msg) ==
    [m |-> RenderedPorts([m EXCEPT !.ports = msg.ports]), cmd |-> <<>>]

UpdateProcsMsg(m, msg) ==
    [m |-> RenderedProcs([m EXCEPT !.procs = msg.procs]), cmd |-> <<>>]

\* case "ctrl+u" outside editing where the stored table is left as it was.
NoRenderClearPortsQuery(m) ==
    [m EXCEPT !.portsQuery = <<>>, !.portsSearch = TextSetValue(m.portsSearch, <<>>)]

\* case "ctrl+u" outside editing (lines 404-417).
ClearPortsQuery(m) ==
    RenderedPorts([m EXCEPT !.portsQuery = <<>>,
                            !.portsSearch = TextSetValue(m.portsSearch, <<>>)])

ClearProcsQuery(m) ==
    RenderedProcs([m EXCEPT !.procsQuery = <<>>,
                            !.procsSearch = TextSetValue(m.procsSearch, <<>>)])

\* highlightFold (lines 810-844).  A string is its sequence of code points;
\* Go indexes and slices the string ls by bytes and the slice rs by code
\* points.  The code point U+00E9 takes two bytes of UTF-8, the others here
\* one.
EAcute == "U+00E9"
Utf8Len(c) == IF c = EAcute THEN 2 ELSE 1

\* The bytes of a string: the k-th byte of code point c is <<c, k>>.
RECURSIVE Utf8Bytes(_)
Utf8Bytes(str) ==
    IF str = <<>> THEN <<>>
    ELSE [k \in 1..Utf8Len(Head(str)) |-> <<Head(str), k>>] \o Utf8Bytes(Tail(str))

\* strings.Index on bytes: the first offset of needle in hay, or -1.
Index(hay, needle) ==
    LET at == {j \in 0..(Len(hay) - Len(needle)) :
                  SubSeq(hay, j + 1, j + Len(needle)) = needle}
    IN IF at = {} THEN 0 - 1 ELSE CHOOSE j \in at : \A k \in at : j <= k

\* out.WriteString of a plain piece, and of a piece through hlStyle.Render.
WritePlain(text) == IF text = <<>> THEN <<>> ELSE <<[text |-> text, hl |-> FALSE]>>
WriteMarked(text) == <<[text |-> text, hl |-> TRUE]>>

\* The for loop (lines 824-841) from offset i, out being what is written so
\* far.  rs[i:j] panics when j exceeds len(rs); an iteration that ends with
\* i where it began repeats for ever.
RECURSIVE HighlightLoop(_, _, _, _, _, _)
HighlightLoop(rs, ls, lq, nq, i, out) ==
    LET j0 == Index(SubSeq(ls, i + 1, Len(ls)), lq)
        j == j0 + i
        end == Min(j + nq, Len(rs))
    IN IF j0 < 0
       THEN [status |-> "ok", segs |-> out \o WritePlain(SubSeq(rs, i + 1, Len(rs)))]
       ELSE IF j > Len(rs) THEN [status |-> "panic", segs |-> out]
       ELSE IF end = i THEN [status |-> "hang", segs |-> out]
       ELSE HighlightLoop(rs, ls, lq, nq, end,
                out \o WritePlain(SubSeq(rs, i + 1, j)) \o WriteMarked(SubSeq(rs, j + 1, end)))

highlightFold(str, q) ==
    LET tq == TrimSpace(q)
    IN IF tq = <<>> THEN [status |-> "ok", segs |-> WritePlain(str)]
       ELSE HighlightLoop(str, Utf8Bytes(ToLower(str)), Utf8Bytes(ToLower(tq)),
                          Len(ToLower(tq)), 0, <<>>)

\* Interfaces tab (lines 425-452): the list takes the message, and the
\* selection follows the list's selected item.
KeepHistIfacesTab(m, msg) ==
    LET lu == ListUpdate(m.ifaceList, msg)
        it == ListSelectedItem(lu.list)
        follow == it # NoName /\ m.selectedIface # it
        m1 == [m EXCEPT !.ifaceList = lu.list]
    IN [m |-> IF follow THEN [m1 EXCEPT !.selectedIface = it] ELSE m1,
        cmd |-> lu.cmd \o (IF follow THEN <<"fetchExternalIP">> ELSE <<>>)]
AlwaysFetchIfacesTab(m, msg) ==
    LET lu == ListUpdate(m.ifaceList, msg)
        it == ListSelectedItem(lu.list)
        follow == it # NoName /\ m.selectedIface # it
        m1 == [m EXCEPT !.ifaceList = lu.list]
    IN [m |-> IF follow
              THEN [m1 EXCEPT !.selectedIface = it, !.rxHist = <<>>, !.txHist = <<>>]
              ELSE m1,
        cmd |-> lu.cmd \o <<"fetchExternalIP">>]
RxOnlyClearIfacesTab(m, msg) ==
    LET lu == ListUpdate(m.ifaceList, msg)
        it == ListSelectedItem(lu.list)
        follow == it # NoName /\ m.selectedIface # it
        m1 == [m EXCEPT !.ifaceList = lu.list]
    IN [m |-> IF follow
              THEN [m1 EXCEPT !.selectedIface = it, !.rxHist = <<>>]
              ELSE m1,
        cmd |-> lu.cmd \o (IF follow THEN <<"fetchExternalIP">> ELSE <<>>)]
IfacesTab(m, msg) ==
    LET lu == ListUpdate(m.ifaceList, msg)
        it == ListSelectedItem(lu.list)
        follow == it # NoName /\ m.selectedIface # it
        m1 == [m EXCEPT !.ifaceList = lu.list]
    IN [m |-> IF follow
              THEN [m1 EXCEPT !.selectedIface = it, !.rxHist = <<>>, !.txHist = <<>>]
              ELSE m1,
        cmd |-> lu.cmd \o (IF follow THEN <<"fetchExternalIP">> ELSE <<>>)]

\* Ports search mode where Enter also drops the stored rows the new query
\* does not match.
FilterInPlacePortsSearchMode(m, msg) ==
    LET ti == TextInputUpdate(m.portsSearch, msg)
        m1 == [m EXCEPT !.portsSearch = ti]
        key == IF msg.kind = "key" THEN msg.key ELSE ""
        q == TrimSpace(ti.value)
        hit(p) == q = <<>> \/ containsFold(ShownLocal(p), q)
                      \/ containsFold(ShownProcess(p), q) \/ containsFold(p.Proto, q)
    IN IF key = "enter"
       THEN [m |-> RenderedPorts([m1 EXCEPT !.portsQuery = q,
                                           !.portsSearching = FALSE,
                                           !.portsSearch = [ti EXCEPT !.focus = FALSE],
                                           !.ports = SelectSeq(m.ports, hit)]),
             cmd |-> <<>>]
       ELSE IF key = "esc"
       THEN [m |-> [m1 EXCEPT !.portsSearching = FALSE,
                             !.portsSearch = [ti EXCEPT !.focus = FALSE]],
             cmd |-> <<>>]
       ELSE IF key = "ctrl+u"
       THEN [m |-> [m1 EXCEPT !.portsSearch = TextSetValue(ti, <<>>)], cmd |-> <<>>]
       ELSE [m |-> m1, cmd |-> <<>>]

\* Ports search mode (lines 454-481).
PortsSearchMode(m, msg) ==
    LET ti == TextInputUpdate(m.portsSearch, msg)
        m1 == [m EXCEPT !.portsSearch = ti]
        key == IF msg.kind = "key" THEN msg.key ELSE ""
    IN IF key = "enter"
       THEN [m |-> RenderedPorts([m1 EXCEPT !.portsQuery = TrimSpace(ti.value),
                                           !.portsSearching = FALSE,
                                           !.portsSearch = [ti EXCEPT !.focus = FALSE]]),
             cmd |-> <<>>]
       ELSE IF key = "esc"
       THEN [m |-> [m1 EXCEPT !.portsSearching = FALSE,
                             !.portsSearch = [ti EXCEPT !.focus = FALSE]],
             cmd |-> <<>>]
       ELSE IF key = "ctrl+u"
       THEN [m |-> [m1 EXCEPT !.portsSearch = TextSetValue(ti, <<>>)], cmd |-> <<>>]
       ELSE [m |-> m1, cmd |-> <<>>]

\* Procs search mode where the applied query follows the input at every key.
LiveQueryProcsSearchMode(m, msg) ==
    LET ti == TextInputUpdate(m.procsSearch, msg)
        m1 == [m EXCEPT !.procsSearch = ti, !.procsQuery = TrimSpace(ti.value)]
        key == IF msg.kind = "key" THEN msg.key ELSE ""
    IN IF key = "enter"
       THEN [m |-> RenderedProcs([m1 EXCEPT !.procsSearching = FALSE,
                                           !.procsSearch = [ti EXCEPT !.focus = FALSE]]),
             cmd |-> <<>>]
       ELSE IF key = "esc"
       THEN [m |-> [m1 EXCEPT !.procsSearching = FALSE,
                             !.procsSearch = [ti EXCEPT !.focus = FALSE]],
             cmd |-> <<>>]
       ELSE IF key = "ctrl+u"
       THEN [m |-> [m1 EXCEPT !.procsSearch = TextSetValue(ti, <<>>)], cmd |-> <<>>]
       ELSE [m |-> m1, cmd |-> <<>>]

\* Procs search mode (lines 483-509).
ProcsSearchMode(m, msg) ==
    LET ti == TextInputUpdate(m.procsSearch, msg)
        m1 == [m EXCEPT !.procsSearch = ti]
        key == IF msg.kind = "key" THEN msg.key ELSE ""
    IN IF key = "enter"
       THEN [m |-> RenderedProcs([m1 EXCEPT !.procsQuery = TrimSpace(ti.value),
                                           !.procsSearching = FALSE,
                                           !.procsSearch = [ti EXCEPT !.focus = FALSE]]),
             cmd |-> <<>>]
       ELSE IF key = "esc"
       THEN [m |-> [m1 EXCEPT !.procsSearching = FALSE,
                             !.procsSearch = [ti EXCEPT !.focus = FALSE]],
             cmd |-> <<>>]
       ELSE IF key = "ctrl+u"
       THEN [m |-> [m1 EXCEPT !.procsSearch = TextSetValue(ti, <<>>)], cmd |-> <<>>]
       ELSE [m |-> m1, cmd |-> <<>>]

\* What follows the type switch (lines 425-525) for a message no case returned
\* on; the ports and processes viewports only scroll.
AfterSwitch(m, msg) ==
    IF m.activeTab = tabIfaces THEN IfacesTab(m, msg)
    ELSE IF m.activeTab = tabPorts /\ m.portsSearching THEN PortsSearchMode(m, msg)
    ELSE IF m.activeTab = tabProcs /\ m.procsSearching THEN ProcsSearchMode(m, msg)
    ELSE [m |-> m, cmd |-> <<>>]

\* case tea.KeyMsg (lines 370-423).
UpdateKeyMsg(m, msg) ==
    CASE msg.key = "ctrl+c" -> [m |-> m, cmd |-> <<"quit">>]
      [] msg.key = "q" -> [m |-> m, cmd |-> <<>>]
      [] msg.key \in {"tab", "right"} ->
            [m |-> [m EXCEPT !.activeTab = (m.activeTab + 1) % 4], cmd |-> <<>>]
      [] msg.key \in {"shift+tab", "left"} ->
            [m |-> [m EXCEPT !.activeTab = (m.activeTab + 3) % 4], cmd |-> <<>>]
      [] msg.key = "/" ->
            IF m.activeTab = tabPorts
            THEN [m |-> [m EXCEPT !.portsSearching = TRUE,
                                  !.portsSearch = TextSetValue(
                                      [m.portsSearch EXCEPT !.focus = TRUE], m.portsQuery)],
                  cmd |-> <<>>]
            ELSE IF m.activeTab = tabProcs
            THEN [m |-> [m EXCEPT !.procsSearching = TRUE,
                                  !.procsSearch = TextSetValue(
                                      [m.procsSearch EXCEPT !.focus = TRUE], m.procsQuery)],
                  cmd |-> <<>>]
            ELSE AfterSwitch(m, msg)
      [] msg.key = "ctrl+u" ->
            IF m.activeTab = tabPorts /\ ~m.portsSearching
            THEN [m |-> ClearPortsQuery(m), cmd |-> <<>>]
            ELSE IF m.activeTab = tabProcs /\ ~m.procsSearching
            THEN [m |-> ClearProcsQuery(m), cmd |-> <<>>]
            ELSE AfterSwitch(m, msg)
      [] msg.key = "ctrl+e" -> [m |-> m, cmd |-> <<"fetchExternalIP">>]
      [] OTHER -> AfterSwitch(m, msg)

\* Model.Update (lines 223-526); t is what time.Now() reads during the call.
FatalErrUpdate(m, msg, t) ==
    CASE msg.kind = "size" -> UpdateWindowSizeMsg(m, msg)
      [] msg.kind = "extip" -> UpdateExternalIPMsg(m, msg, t)
      [] msg.kind = "tick" -> UpdateTickMsg(m, t)
      [] msg.kind = "extiptick" -> UpdateExtIPTickMsg(m)
      [] msg.kind = "snap" -> UpdateSnapMsg(m, msg)
      [] msg.kind = "ports" -> UpdatePortsMsg(m, msg)
      [] msg.kind = "procs" -> UpdateProcsMsg(m, msg)
      [] msg.kind = "err" -> [m |-> UpdateErrMsg(m, msg).m, cmd |-> <<"quit">>]
      [] msg.kind = "key" -> UpdateKeyMsg(m, msg)
      [] OTHER -> AfterSwitch(m, msg)
Update(m, msg, t) ==
    CASE msg.kind = "size" -> UpdateWindowSizeMsg(m, msg)
      [] msg.kind = "extip" -> UpdateExternalIPMsg(m, msg, t)
      [] msg.kind = "tick" -> UpdateTickMsg(m, t)
      [] msg.kind = "extiptick" -> UpdateExtIPTickMsg(m)
      [] msg.kind = "snap" -> UpdateSnapMsg(m, msg)
      [] msg.kind = "ports" -> UpdatePortsMsg(m, msg)
      [] msg.kind = "procs" -> UpdateProcsMsg(m, msg)
      [] msg.kind = "err" -> UpdateErrMsg(m, msg)
      [] msg.kind = "key" -> UpdateKeyMsg(m, msg)
      [] OTHER -> AfterSwitch(m, msg)

\* ------------------------------------------------------ the event loop
\* No Update call has returned a model and command that are still held.
NoCall == [msg |-> [kind |-> "none"], before |-> NewModel, cmd |-> <<>>]

NoLog == [rx |-> <<>>, tx |-> <<>>, ws |-> {}]
NoClamp == [valid |-> FALSE, s |-> <<>>, max |-> 0, out |-> <<>>]
\* No render call has returned a text that is still held.
NoView == [valid |-> FALSE, table |-> "", m |-> NewModel,
           out |-> [nodata |-> TRUE, rows |-> <<>>]]

\* ---------------------------------------------------------- the runtime
\* At most MaxInFlight tasks of one kind are counted; more read as MaxInFlight.
MaxInFlight == 1
\* The period of extIPTickEvery(30*time.Second), in seconds, scaled down.
ExtIPTickSecs == 2
\* The window of tick handlings a ports and process refresh must fall in.
CadenceWindow == 5

\* The goroutines that may run a refreshCmd, hence Sample(), at one time.
RaceTasks == {1, 2}
\* A goroutine that is not inside Sample().
NoRun == [pc |-> "idle", t0 |-> ZeroTime, cur |-> <<>>, at |-> ZeroTime, lst |-> <<>>]

\* Nothing armed, nothing in flight.
NoRt ==
    [ticks |-> <<>>, extTicks |-> <<>>,
     tasks |-> [sample |-> 0, ports |-> 0, procs |-> 0, extip |-> 0],
     dry |-> 0,
     runs |-> [t \in RaceTasks |-> NoRun]]

\* The batch Model.Init returns (lines 131-140).
ModelInit ==
    <<"refresh", "fetchPorts", "fetchProcs", "fetchExternalIP", "extIPTick", "tick">>

\* How many times command c occurs in the batch cmds.
CountOf(cmds, c) == Cardinality({i \in DOMAIN cmds : cmds[i] = c})

\* s without its element at place i.
RemoveAt(s, i) == SubSeq(s, 1, i - 1) \o SubSeq(s, i + 1, Len(s))

\* One more task of kind k in flight.
Spawn(r, k) == [r EXCEPT !.tasks[k] = Min(@ + 1, MaxInFlight)]

\* The runtime starts one command at time t: tea.Tick arms a timer that is
\* due after its period (times past cap read as cap); every other command
\* runs as a task of its own that will send one message.
SerialStartOne(r, c, t, cap) ==
    CASE c = "tick" ->
            [r EXCEPT !.ticks = Append(@, Min(t + TicksPerSec, cap))]
      [] c = "extIPTick" ->
            [r EXCEPT !.extTicks = Append(@, Min(t + ExtIPTickSecs * TicksPerSec, cap))]
      [] c = "refresh" -> IF r.tasks.extip > 0 THEN r ELSE Spawn(r, "sample")
      [] c = "fetchPorts" -> Spawn(r, "ports")
      [] c = "fetchProcs" -> Spawn(r, "procs")
      [] c = "fetchExternalIP" -> Spawn(r, "extip")
      [] OTHER -> r
StartOne(r, c, t, cap) ==
    CASE c = "tick" ->
            [r EXCEPT !.ticks = Append(@, Min(t + TicksPerSec, cap))]
      [] c = "extIPTick" ->
            [r EXCEPT !.extTicks = Append(@, Min(t + ExtIPTickSecs * TicksPerSec, cap))]
      [] c = "refresh" -> Spawn(r, "sample")
      [] c = "fetchPorts" -> Spawn(r, "ports")
      [] c = "fetchProcs" -> Spawn(r, "procs")
      [] c = "fetchExternalIP" -> Spawn(r, "extip")
      [] OTHER -> r

\* The runtime starts every command of a batch.
RECURSIVE Start(_, _, _, _)
Start(r, cmds, t, cap) ==
    IF cmds = <<>> THEN r
    ELSE Start(StartOne(r, Head(cmds), t, cap), Tail(cmds), t, cap)

\* ------------------------------------- the earlier ui: unnamed/part_002
\* Scaled-down stand-in for the 10 of max(10, m.w/2).
LegacyHistFloor == 2

\* probe.ClassifyIface, on the names the snapshots carry.
ClassifyIface(name) ==
    IF name = "lo" THEN "IfaceLoopback"
    ELSE IF name = "eth0" THEN "IfacePhysical"
    ELSE "IfaceUnknown"

\* NewModel of part_002 (lines 66-81).
LegacyNewModel ==
    [w |-> 0,
     activeTab |-> tabOverview,
     lastSnap |-> [Ifaces |-> <<>>, TakenAt |-> ZeroTime],
     err |-> NoErr,
     ifaceList |-> NewList,
     selectedIface |-> NoName,
     rxHist |-> <<>>,
     txHist |-> <<>>,
     ports |-> <<>>,
     procs |-> <<>>,
     pickingIface |-> FALSE,
     showDown |-> FALSE,
     showLoop |-> FALSE,
     showBridges |-> FALSE,
     showVeth |-> FALSE,
     showDocker |-> FALSE]

\* The batch Model.Init of part_002 returns (lines 83-88).
LegacyModelInit == <<"refresh", "tick">>

\* Model.ifaceVisible (lines 90-106).
ifaceVisible(m, ii) ==
    IF ~m.showDown /\ ~ii.IsUp THEN FALSE
    ELSE CASE ii.Kind = "IfaceLoopback" -> m.showLoop
           [] ii.Kind = "IfaceLinuxBridge" -> m.showBridges
           [] ii.Kind = "IfaceVeth" -> m.showVeth
           [] ii.Kind = "IfaceDockerBridge" -> m.showDocker
           [] OTHER -> TRUE

\* case tea.WindowSizeMsg (lines 150-153).
LegacyUpdateWindowSizeMsg(m, msg) == [m |-> [m EXCEPT !.w = msg.Width], cmd |-> <<>>]

\* case tickMsg (lines 155-162).
LegacyUpdateTickMsg(m, t) ==
    [m |-> m,
     cmd |-> <<"refresh", "tick">> \o
             (IF (t \div TicksPerSec) % 5 = 0
              THEN <<"fetchPorts", "fetchProcs">> ELSE <<>>)]

\* The names of the visible interfaces, the items of the list (lines 168-182).
LegacyItems(m, ifaces) ==
    LET vis(ii) == ifaceVisible(m, ii)
        shown == SelectSeq(ifaces, vis)
    IN [i \in DOMAIN shown |-> shown[i].Name]

\* The selection after a snapshot (lines 184-200): a selected name that is
\* gone gives way to the first interface, and so does no selection.
LegacySelect(sel, ifaces) ==
    LET found == \E i \in DOMAIN ifaces : ifaces[i].Name = sel
        s1 == IF sel # NoName /\ ~found /\ Len(ifaces) > 0 THEN ifaces[1].Name ELSE sel
    IN IF s1 = NoName /\ Len(ifaces) > 0 THEN ifaces[1].Name ELSE s1

\* The history append for the selected interface (lines 202-211).
LegacyAppendHistory(m, ifaces) ==
    LET hits == {i \in DOMAIN ifaces : ifaces[i].Name = m.selectedIface}
        max == Max(LegacyHistFloor, m.w \div 2)
    IN IF hits = {} THEN m
       ELSE LET ii == ifaces[CHOOSE i \in hits : \A j \in hits : i <= j]
            IN [m EXCEPT
                  !.rxHist = ClampHistory(Append(m.rxHist, ii.RxBps), max),
                  !.txHist = ClampHistory(Append(m.txHist, ii.TxBps), max)]

\* case snapMsg (lines 164-213).
LegacyUpdateSnapMsg(m, msg) ==
    LET snap == msg.snap
        m1 == [m EXCEPT !.lastSnap = snap,
                        !.err = NoErr,
                        !.ifaceList = ListSetItems(m.ifaceList, LegacyItems(m, snap.Ifaces)),
                        !.selectedIface = LegacySelect(m.selectedIface, snap.Ifaces)]
    IN [m |-> LegacyAppendHistory(m1, snap.Ifaces), cmd |-> <<>>]

\* The list navigation on the Interfaces tab, where enter selects (lines 271-285).
LegacyIfacesTab(m, msg) ==
    LET lu == ListUpdate(m.ifaceList, msg)
        it == ListSelectedItem(lu.list)
        m1 == [m EXCEPT !.ifaceList = lu.list]
    IN [m |-> IF msg.kind = "key" /\ msg.key = "enter" /\ it # NoName
              THEN [m1 EXCEPT !.selectedIface = it, !.rxHist = <<>>, !.txHist = <<>>]
              ELSE m1,
        cmd |-> lu.cmd]

\* case tea.KeyMsg (lines 227-269), and what follows the switch (271-288).
LegacyUpdateKeyMsg(m, msg) ==
    LET k == msg.key
        set(m1) == [m |-> m1, cmd |-> <<>>]
    IN CASE k \in {"ctrl+c", "q"} -> [m |-> m, cmd |-> <<"quit">>]
         [] k = "tab" -> set([m EXCEPT !.activeTab = (m.activeTab + 1) % 4])
         [] k = "shift+tab" -> set([m EXCEPT !.activeTab = (m.activeTab + 3) % 4])
         [] k = "1" -> set([m EXCEPT !.activeTab = tabOverview])
         [] k = "2" -> set([m EXCEPT !.activeTab = tabIfaces])
         [] k = "3" -> set([m EXCEPT !.activeTab = tabPorts])
         [] k = "4" -> set([m EXCEPT !.activeTab = tabProcs])
         [] k = "i" -> set([m EXCEPT !.pickingIface = ~m.pickingIface])
         [] k = "d" -> set([m EXCEPT !.showDown = ~m.showDown])
         [] k = "l" -> set([m EXCEPT !.showLoop = ~m.showLoop])
         [] k = "b" -> set([m EXCEPT !.showBridges = ~m.showBridges])
         [] k = "v" -> set([m EXCEPT !.showVeth = ~m.showVeth])
         [] k = "o" -> set([m EXCEPT !.showDocker = ~m.showDocker])
         [] OTHER -> IF m.activeTab = tabIfaces THEN LegacyIfacesTab(m, msg)
                     ELSE set(m)

\* Model.updateIfacePicker (lines 290-307): every message goes to the list,
\* and to nothing else; enter and esc close the picker.
updateIfacePicker(m, msg) ==
    LET lu == ListUpdate(m.ifaceList, msg)
        it == ListSelectedItem(lu.list)
        m1 == [m EXCEPT !.ifaceList = lu.list]
        key == IF msg.kind = "key" THEN msg.key ELSE ""
    IN [m |-> CASE key = "enter" ->
                     IF it # NoName
                     THEN [m1 EXCEPT !.selectedIface = it, !.rxHist = <<>>,
                                     !.txHist = <<>>, !.pickingIface = FALSE]
                     ELSE [m1 EXCEPT !.pickingIface = FALSE]
                [] key = "esc" -> [m1 EXCEPT !.pickingIface = FALSE]
                [] OTHER -> m1,
        cmd |-> lu.cmd]

\* Model.Update of part_002 (lines 142-288), called at time t.
LegacyUpdate(m, msg, t) ==
    IF m.pickingIface THEN updateIfacePicker(m, msg)
    ELSE CASE msg.kind = "size" -> LegacyUpdateWindowSizeMsg(m, msg)
           [] msg.kind = "tick" -> LegacyUpdateTickMsg(m, t)
           [] msg.kind = "snap" -> LegacyUpdateSnapMsg(m, msg)
           [] msg.kind = "ports" -> [m |-> [m EXCEPT !.ports = msg.ports], cmd |-> <<>>]
           [] msg.kind = "procs" -> [m |-> [m EXCEPT !.procs = msg.procs], cmd |-> <<>>]
           [] msg.kind = "err" -> [m |-> [m EXCEPT !.err = msg.err], cmd |-> <<>>]
           [] msg.kind = "key" -> LegacyUpdateKeyMsg(m, msg)
           [] OTHER -> [m |-> m, cmd |-> <<>>]

\* No Update call of the earlier ui is in progress.
NoLegacyCall == [msg |-> [kind |-> "none"], before |-> LegacyNewModel, cmd |-> <<>>]

\* The earlier ui as tea.NewProgram(NewModel()) starts it at time t.
LegacyStart(t) ==
    [m |-> LegacyNewModel,
     call |-> NoLegacyCall,
     rt |-> Start(NoRt, LegacyModelInit, t, MaxClock),
     quit |-> FALSE]

LegacyInit == legacy = LegacyStart(now)

UiInit ==
    /\ model = NewModel
    /\ call = NoCall
    /\ hlog = NoLog
    /\ clamp = NoClamp
    /\ view = NoView
    /\ rt = Start(NoRt, ModelInit, now, MaxClock)

Init == SamplerInit /\ UiInit /\ ProbeInit /\ LegacyInit

\* The loop is between two Update calls.
Idle == call = NoCall /\ clamp = NoClamp /\ view = NoView

\* The loop hands msg to Update and keeps the model and command it returns.
Handle(msg) ==
    /\ LET r == Update(model, msg, now)
       IN /\ model' = r.m
          /\ call' = [msg |-> msg, before |-> model, cmd |-> r.cmd]
    /\ UNCHANGED samplerVars

\* The loop runs the returned command; the call is over.
Dispatch ==
    /\ call # NoCall
    /\ call' = NoCall
    /\ UNCHANGED <<model, hlog, clamp, view, probe, legacy, rt, now, last, lastAt, ret, prev, base>>

\* ------------------------------------------------------- specifications
\* The rate sampler alone, called again and again.
SamplerNext == ClockTick \/ SampleOk \/ SampleFail \/ SampleReturn

SpecSampler == Init /\ [][SamplerNext]_vars

\* An IfaceInfo as the ui reads it, with whole-number rates.
IfaceInfo(name, rx, tx) ==
    [Name |-> name, RxTotal |-> 0, TxTotal |-> 0,
     RxBps |-> Frac(rx, 1), TxBps |-> Frac(tx, 1)]

\* Selection: snapshots of every interface order, each interface reporting
\* rates of its own (so a history sample tells which interface it was taken
\* for), tab switching and list navigation.
TagRx(name) == IF name = "eth0" THEN 1 ELSE 3
TagTx(name) == IF name = "eth0" THEN 2 ELSE 4
TaggedSnaps ==
    {[Ifaces |-> [i \in DOMAIN ifs |-> IfaceInfo(ifs[i], TagRx(ifs[i]), TagTx(ifs[i]))],
      TakenAt |-> 1] : ifs \in IfsChoices}
SelKeys == {"tab", "shift+tab", "down", "up"}

SelSnapMsg ==
    /\ Idle
    /\ \E snap \in TaggedSnaps : Handle([kind |-> "snap", snap |-> snap])
    /\ UNCHANGED <<hlog, clamp, view, probe, legacy, rt>>
SelKeyMsg ==
    /\ Idle
    /\ \E k \in SelKeys : Handle([kind |-> "key", key |-> k])
    /\ UNCHANGED <<hlog, clamp, view, probe, legacy, rt>>

SelNext == SelSnapMsg \/ SelKeyMsg \/ Dispatch

SpecSel == Init /\ [][SelNext]_vars

\* History: snapshots of one interface whose rates change from sample to
\* sample, window resizes, and direct ClampHistory calls on the history.
MaxAppends == 5
HistSamples == {1, 2}
HistSnaps ==
    {[Ifaces |-> <<IfaceInfo("eth0", k, k + 2)>>, TakenAt |-> 1] : k \in HistSamples}
        \cup {[Ifaces |-> <<>>, TakenAt |-> 1]}
\* Widths whose halves lie below, between and above the two limits.
HistWidths == {0, 2 * HistFloor + 2, 2 * HistCeil + 2}
ClampArgs == {0 - 1, 0, 1, HistFloor}

\* The sample of the selected interface in the snapshot, if it has one, is
\* logged together with the width at that moment.
Logged(mAfter, snap, w) ==
    LET hits == {i \in DOMAIN snap.Ifaces : snap.Ifaces[i].Name = mAfter.selectedIface}
    IN IF hits = {} THEN hlog
       ELSE LET ii == snap.Ifaces[CHOOSE i \in hits : \A j \in hits : i <= j]
            IN [rx |-> Append(hlog.rx, ii.RxBps),
                tx |-> Append(hlog.tx, ii.TxBps),
                ws |-> hlog.ws \cup {w}]

HistSnapMsg ==
    /\ Idle
    /\ Len(hlog.rx) < MaxAppends
    /\ \E snap \in HistSnaps :
          /\ Handle([kind |-> "snap", snap |-> snap])
          /\ hlog' = Logged(Update(model, [kind |-> "snap", snap |-> snap], now).m,
                            snap, model.w)
    /\ UNCHANGED <<clamp, view, probe, legacy, rt>>
HistWindowSizeMsg ==
    /\ Idle
    /\ \E w \in HistWidths : Handle([kind |-> "size", Width |-> w])
    /\ UNCHANGED <<hlog, clamp, view, probe, legacy, rt>>
ClampHistoryCall ==
    /\ Idle
    /\ \E max \in ClampArgs :
          clamp' = [valid |-> TRUE, s |-> model.rxHist, max |-> max,
                    out |-> ClampHistory(model.rxHist, max)]
    /\ UNCHANGED <<model, call, hlog, rt, view, probe, legacy, samplerVars>>
ClampHistoryReturn ==
    /\ clamp # NoClamp
    /\ clamp' = NoClamp
    /\ UNCHANGED <<model, call, hlog, rt, view, probe, legacy, samplerVars>>

HistNext ==
    HistSnapMsg \/ HistWindowSizeMsg \/ ClampHistoryCall \/ ClampHistoryReturn
        \/ Dispatch

SpecHist == Init /\ [][HistNext]_vars

\* Errors: every poll result, failed or not, in any order.
\* errMsg{err} of refreshCmd, fetchPortsCmd and fetchProcsCmd (lines 148-181),
\* the error naming the poll that failed.
ErrSources == {"sample", "ports", "procs"}
\* What fetchExternalIPCmd can return (lines 183-221): an error with no
\* address, or a non-empty address with no error.
FetchExternalIP ==
    {[kind |-> "extip", ip |-> "", err |-> e] : e \in {"get", "empty response"}}
        \cup {[kind |-> "extip", ip |-> a, err |-> NoErr] : a \in {"198.51.100.7"}}
ErrSnaps ==
    {snap \in TaggedSnaps : \A i \in DOMAIN snap.Ifaces : snap.Ifaces[i].Name = "eth0"}
\* "tcp", "0.0.0.0:8080", "nginx"
ProtoTcp == <<"t", "c", "p">>
Addr8080 == <<"0", ".", "0", ".", "0", ".", "0", ":", "8", "0", "8", "0">>
NameNginx == <<"n", "g", "i", "n", "x">>
PortsChoices ==
    {<<>>, <<[Proto |-> ProtoTcp, Local |-> Addr8080, PID |-> 1, Process |-> NameNginx]>>}
ProcsChoices ==
    {<<>>, <<[PID |-> 10, Name |-> NameNginx, ConnCount |-> 3, ListenCount |-> 1]>>}

ErrErrMsg ==
    /\ Idle
    /\ \E e \in ErrSources : Handle([kind |-> "err", err |-> e])
    /\ UNCHANGED <<hlog, clamp, view, probe, legacy, rt>>
ErrExternalIPMsg ==
    /\ Idle
    /\ \E msg \in FetchExternalIP : Handle(msg)
    /\ UNCHANGED <<hlog, clamp, view, probe, legacy, rt>>
ErrSnapMsg ==
    /\ Idle
    /\ \E snap \in ErrSnaps : Handle([kind |-> "snap", snap |-> snap])
    /\ UNCHANGED <<hlog, clamp, view, probe, legacy, rt>>
ErrPortsMsg ==
    /\ Idle
    /\ \E ps \in PortsChoices : Handle([kind |-> "ports", ports |-> ps])
    /\ UNCHANGED <<hlog, clamp, view, probe, legacy, rt>>
ErrProcsMsg ==
    /\ Idle
    /\ \E ps \in ProcsChoices : Handle([kind |-> "procs", procs |-> ps])
    /\ UNCHANGED <<hlog, clamp, view, probe, legacy, rt>>

ErrNext ==
    ErrErrMsg \/ ErrExternalIPMsg \/ ErrSnapMsg \/ ErrPortsMsg \/ ErrProcsMsg
        \/ Dispatch

SpecErr == Init /\ [][ErrNext]_vars

\* Every poll and timer message, on every tab.
PollTimerMsg ==
    /\ Idle
    /\ \E k \in {"tick", "extiptick"} : Handle([kind |-> k])
    /\ UNCHANGED <<hlog, clamp, view, probe, legacy, rt>>
PollKeyMsg ==
    /\ Idle
    /\ Handle([kind |-> "key", key |-> "tab"])
    /\ UNCHANGED <<hlog, clamp, view, probe, legacy, rt>>

PollNext ==
    ErrErrMsg \/ ErrExternalIPMsg \/ ErrSnapMsg \/ ErrPortsMsg \/ ErrProcsMsg
        \/ PollTimerMsg \/ PollKeyMsg \/ Dispatch

SpecPoll == Init /\ [][PollNext]_vars

\* Stale data: failed polls among successful ones, with the keys that
\* compose and apply a search query.
StalePolls ==
    {msg \in FetchExternalIP : msg.err = NoErr}
        \cup {[kind |-> "snap", snap |-> snap] : snap \in {x \in ErrSnaps : x.Ifaces # <<>>}}
        \cup {[kind |-> "ports", ports |-> ps] : ps \in PortsChoices \ {<<>>}}
        \cup {[kind |-> "procs", procs |-> ps] : ps \in ProcsChoices \ {<<>>}}
StaleKeys == {"tab", "/", "a", "enter"}

StalePollMsg ==
    /\ Idle
    /\ \E msg \in StalePolls : Handle(msg)
    /\ UNCHANGED <<hlog, clamp, view, probe, legacy, rt>>
StaleKeyMsg ==
    /\ Idle
    /\ \E k \in StaleKeys : Handle([kind |-> "key", key |-> k])
    /\ UNCHANGED <<hlog, clamp, view, probe, legacy, rt>>

StaleNext == ErrErrMsg \/ StalePollMsg \/ StaleKeyMsg \/ Dispatch

SpecStale == Init /\ [][StaleNext]_vars

\* Searching: every key of the search, on every tab, between ports and
\* process results.  The two searches run the same code on fields of their
\* own; the space bar is pressed on the Ports tab only.
SearchKeys == {"tab", "/", "a", " ", "q", "enter", "esc", "ctrl+u"}

SearchKeyMsg ==
    /\ Idle
    /\ \E k \in SearchKeys :
          /\ k = " " => model.activeTab = tabPorts
          /\ Handle([kind |-> "key", key |-> k])
    /\ UNCHANGED <<hlog, clamp, view, probe, legacy, rt>>
SearchPortsMsg ==
    /\ Idle
    /\ \E ps \in PortsChoices \ {<<>>} : Handle([kind |-> "ports", ports |-> ps])
    /\ UNCHANGED <<hlog, clamp, view, probe, legacy, rt>>
SearchProcsMsg ==
    /\ Idle
    /\ \E ps \in ProcsChoices \ {<<>>} : Handle([kind |-> "procs", procs |-> ps])
    /\ UNCHANGED <<hlog, clamp, view, probe, legacy, rt>>

SearchNext == SearchKeyMsg \/ SearchPortsMsg \/ SearchProcsMsg \/ Dispatch

SpecSearch == Init /\ [][SearchNext]_vars

\* Rendering: the two tables rendered for stored rows and an applied query.
MaxRows == 2

\* "TCP", "udp", "127.0.0.1:443", "0.0.0.0:0", "DNS"
ProtoTCP == <<"T", "C", "P">>
ProtoUdp == <<"u", "d", "p">>
Addr443 == <<"1", "2", "7", ".", "0", ".", "0", ".", "1", ":", "4", "4", "3">>
AddrNone == <<"0", ".", "0", ".", "0", ".", "0", ":", "0">>
NameDNS == <<"D", "N", "S">>

RenderPortRows ==
    {[Proto |-> ProtoTCP, Local |-> Addr8080, PID |-> 1, Process |-> NameNginx],
     [Proto |-> ProtoTcp, Local |-> Addr443, PID |-> 2, Process |-> <<>>],
     [Proto |-> ProtoUdp, Local |-> AddrNone, PID |-> 0, Process |-> NameDNS]}
RenderProcRows ==
    {[PID |-> 80, Name |-> NameNginx, ConnCount |-> 3, ListenCount |-> 1],
     [PID |-> 443, Name |-> <<>>, ConnCount |-> 2, ListenCount |-> 0],
     [PID |-> 7, Name |-> NameDNS, ConnCount |-> 12, ListenCount |-> 2]}
\* "", "80", "tcp", "-", "0.0", "dns", "x"
RenderQueries ==
    {<<>>, <<"8", "0">>, ProtoTcp, <<"-">>, <<"0", ".", "0">>, <<"d", "n", "s">>, <<"x">>}

\* The sequences of at most MaxRows elements of S.
SeqsUpTo(S) == UNION {[1..n -> S] : n \in 0..MaxRows}

RenderPortsCall ==
    /\ Idle
    /\ \E ps \in SeqsUpTo(RenderPortRows), q \in RenderQueries :
          LET m == [model EXCEPT !.ports = ps, !.portsQuery = q]
          IN view' = [valid |-> TRUE, table |-> "ports", m |-> m,
                      out |-> renderPortsText(m)]
    /\ UNCHANGED <<model, call, hlog, clamp, rt, probe, legacy, samplerVars>>
RenderProcsCall ==
    /\ Idle
    /\ \E ps \in SeqsUpTo(RenderProcRows), q \in RenderQueries :
          LET m == [model EXCEPT !.procs = ps, !.procsQuery = q]
          IN view' = [valid |-> TRUE, table |-> "procs", m |-> m,
                      out |-> renderProcsText(m)]
    /\ UNCHANGED <<model, call, hlog, clamp, rt, probe, legacy, samplerVars>>
RenderReturn ==
    /\ view # NoView
    /\ view' = NoView
    /\ UNCHANGED <<model, call, hlog, clamp, rt, probe, legacy, samplerVars>>

RenderNext == RenderPortsCall \/ RenderProcsCall \/ RenderReturn

SpecRender == Init /\ [][RenderNext]_vars

\* Appending: snapshots of every interface order between the keys that move
\* the selection and one message of every other kind.
AppendKeys == {"tab", "down", "ctrl+e"}
AppendOthers ==
    {[kind |-> "ports", ports |-> ps] : ps \in PortsChoices \ {<<>>}}
        \cup {[kind |-> "procs", procs |-> ps] : ps \in ProcsChoices \ {<<>>}}
        \cup {msg \in FetchExternalIP : msg.err = NoErr}
        \cup {[kind |-> "err", err |-> "sample"], [kind |-> "tick"], [kind |-> "extiptick"]}
        \cup {[kind |-> "size", Width |-> w] : w \in {0, 2 * HistCeil + 2}}

AppendSnapMsg ==
    /\ Idle
    /\ \E snap \in TaggedSnaps : Handle([kind |-> "snap", snap |-> snap])
    /\ UNCHANGED <<hlog, clamp, view, probe, legacy, rt>>
AppendKeyMsg ==
    /\ Idle
    /\ \E k \in AppendKeys : Handle([kind |-> "key", key |-> k])
    /\ UNCHANGED <<hlog, clamp, view, probe, legacy, rt>>
AppendOtherMsg ==
    /\ Idle
    /\ \E msg \in AppendOthers : Handle(msg)
    /\ UNCHANGED <<hlog, clamp, view, probe, legacy, rt>>

AppendNext == AppendSnapMsg \/ AppendKeyMsg \/ AppendOtherMsg \/ Dispatch

SpecAppend == Init /\ [][AppendNext]_vars

\* Data messages of the four kinds in any order, with a failed sample in
\* between.
CommuteErrMsg ==
    /\ Idle
    /\ Handle([kind |-> "err", err |-> "sample"])
    /\ UNCHANGED <<hlog, clamp, view, probe, legacy, rt>>

CommuteNext ==
    SelSnapMsg \/ ErrPortsMsg \/ ErrProcsMsg \/ ErrExternalIPMsg \/ CommuteErrMsg
        \/ Dispatch

SpecCommute == Init /\ [][CommuteNext]_vars

\* Highlighting: calls of highlightFold on every text of at most MaxText
\* code points and every query of at most MaxQuery.
MaxText == 3
MaxQuery == 2
TextRunes == {"a", "B", EAcute}
QueryRunes == {"a", "b", EAcute, " "}

HighlightCall ==
    /\ Idle
    /\ \E str \in UNION {[1..n -> TextRunes] : n \in 0..MaxText},
          q \in UNION {[1..n -> QueryRunes] : n \in 0..MaxQuery} :
          view' = [valid |-> TRUE, table |-> "highlight", m |-> [s |-> str, q |-> q],
                   out |-> highlightFold(str, q)]
    /\ UNCHANGED <<model, call, hlog, clamp, rt, probe, legacy, samplerVars>>
HighlightReturn ==
    /\ view # NoView
    /\ view' = NoView
    /\ UNCHANGED <<model, call, hlog, clamp, rt, probe, legacy, samplerVars>>

HighlightNext == HighlightCall \/ HighlightReturn

SpecHighlight == Init /\ [][HighlightNext]_vars

\* Ranking: calls of TopProcsByConnections over every multiset of at most
\* MaxConns connections, one connection read per step of the loop.
ConnsRead == probe.conns[0].n + probe.conns[10].n + probe.conns[50].n + probe.conns[99].n

TopProcsCall ==
    /\ Idle
    /\ probe.pc = "none"
    /\ \E limit \in Limits : probe' = [NoProbe EXCEPT !.pc = "loop", !.limit = limit]
    /\ UNCHANGED <<model, call, hlog, clamp, rt, view, legacy, samplerVars>>
TopProcsFail ==
    /\ Idle
    /\ probe.pc = "none"
    /\ \E limit \in Limits :
          probe' = [NoProbe EXCEPT !.pc = "done", !.limit = limit, !.err = TRUE]
    /\ UNCHANGED <<model, call, hlog, clamp, rt, view, legacy, samplerVars>>
TopProcsConn ==
    /\ probe.pc = "loop"
    /\ ConnsRead < MaxConns
    /\ \E pid \in ConnPids, status \in Statuses :
          probe' = [probe EXCEPT
              !.m = CountConn(@, pid, status),
              !.conns[pid] = [n |-> @.n + 1,
                              listen |-> @.listen + (IF status = "LISTEN" THEN 1 ELSE 0)]]
    /\ UNCHANGED <<model, call, hlog, clamp, rt, view, legacy, samplerVars>>
TopProcsReturn ==
    /\ probe.pc = "loop"
    /\ probe' = [probe EXCEPT !.pc = "done",
                              !.out = TopProcsByConnections(probe.m, probe.limit)]
    /\ UNCHANGED <<model, call, hlog, clamp, rt, view, legacy, samplerVars>>
TopProcsNext ==
    /\ probe.pc = "done"
    /\ probe' = NoProbe
    /\ UNCHANGED <<model, call, hlog, clamp, rt, view, legacy, samplerVars>>

RankNext == TopProcsCall \/ TopProcsFail \/ TopProcsConn \/ TopProcsReturn \/ TopProcsNext

SpecRank == Init /\ [][RankNext]_vars

\* The loop with its runtime: timers fire when due, poll tasks finish in any
\* order or never, failing or bringing nothing new, and keys change the tab
\* and open a search.
\* The message a finished task of kind k sends (lines 148-221).
TaskResults(k) ==
    CASE k = "sample" ->
            {[kind |-> "err", err |-> "sample"]}
                \cup {[kind |-> "snap", snap |-> snap] : snap \in {x \in ErrSnaps : x.Ifaces = <<>>}}
      [] k = "ports" ->
            {[kind |-> "err", err |-> "ports"], [kind |-> "ports", ports |-> <<>>]}
      [] k = "procs" ->
            {[kind |-> "err", err |-> "procs"], [kind |-> "procs", procs |-> <<>>]}
      [] OTHER -> {msg \in FetchExternalIP : msg.err = "get"}
LoopKeys == {"tab", "/"}

\* The 1-second timer at place i fires and its tickMsg is handled.
LoopTickMsg ==
    /\ Idle
    /\ \E i \in DOMAIN rt.ticks :
          /\ rt.ticks[i] <= now
          /\ Handle([kind |-> "tick"])
          /\ rt' = [rt EXCEPT !.ticks = RemoveAt(@, i)]
    /\ UNCHANGED <<hlog, clamp, view, probe, legacy>>
\* The 30-second timer at place i fires and its extIPTickMsg is handled.
LoopExtIPTickMsg ==
    /\ Idle
    /\ \E i \in DOMAIN rt.extTicks :
          /\ rt.extTicks[i] <= now
          /\ Handle([kind |-> "extiptick"])
          /\ rt' = [rt EXCEPT !.extTicks = RemoveAt(@, i)]
    /\ UNCHANGED <<hlog, clamp, view, probe, legacy>>
\* A poll task finishes and the message it sends is handled.
LoopTaskMsg ==
    /\ Idle
    /\ \E k \in DOMAIN rt.tasks :
          /\ rt.tasks[k] > 0
          /\ \E msg \in TaskResults(k) : Handle(msg)
          /\ rt' = [rt EXCEPT !.tasks[k] = @ - 1]
    /\ UNCHANGED <<hlog, clamp, view, probe, legacy>>
LoopKeyMsg ==
    /\ Idle
    /\ \E k \in LoopKeys : Handle([kind |-> "key", key |-> k])
    /\ UNCHANGED <<hlog, clamp, view, probe, legacy, rt>>
\* The runtime starts the command Update returned; the call is over.
Run ==
    /\ call # NoCall
    /\ rt' = Start(rt, call.cmd, now, MaxClock)
    /\ call' = NoCall
    /\ UNCHANGED <<model, hlog, clamp, view, probe, legacy, samplerVars>>

LoopNext ==
    ClockTick \/ LoopTickMsg \/ LoopExtIPTickMsg \/ LoopTaskMsg \/ LoopKeyMsg \/ Run

SpecLoop == Init /\ [][LoopNext]_vars

\* The same loop where time passes, a due tick is delivered, a returned
\* command is started and a network sample that is in flight comes back with
\* a snapshot, each of them eventually; no such promise for any other poll,
\* so an external-IP fetch may stay in flight for ever.
LiveSnapMsg == LoopTaskMsg /\ call'.msg.kind = "snap"

SpecLive ==
    /\ Init /\ [][LoopNext]_vars
    /\ SF_vars(ClockTick)
    /\ SF_vars(LoopTickMsg)
    /\ SF_vars(LiveSnapMsg)
    /\ WF_vars(Run)

\* The cadence of the ports and process refresh: only the 1-second tick, on a
\* longer clock, its message handled at or any time after the timer is due.
MaxCadenceClock == 12

CadenceClockTick ==
    /\ Idle
    /\ now < MaxCadenceClock
    /\ now' = now + 1
    /\ UNCHANGED <<last, lastAt, ret, prev, base, uiVars>>
CadenceTickMsg ==
    /\ Idle
    /\ \E i \in DOMAIN rt.ticks :
          /\ rt.ticks[i] <= now
          /\ Handle([kind |-> "tick"])
          /\ rt' = [rt EXCEPT !.ticks = RemoveAt(@, i)]
    /\ UNCHANGED <<hlog, clamp, view, probe, legacy>>
\* The runtime starts the returned command; rt.dry counts the tick handlings
\* since the last one that fetched ports and processes.
CadenceRun ==
    /\ call # NoCall
    /\ rt' = LET r == [rt EXCEPT !.dry = IF CountOf(call.cmd, "fetchPorts") > 0 THEN 0
                                        ELSE Min(@ + 1, CadenceWindow)]
             IN Start(r, call.cmd, now, MaxCadenceClock + TicksPerSec)
    /\ call' = NoCall
    /\ UNCHANGED <<model, hlog, clamp, view, probe, legacy, samplerVars>>

CadenceNext == CadenceClockTick \/ CadenceTickMsg \/ CadenceRun

SpecCadence == Init /\ [][CadenceNext]_vars

\* The earlier ui under its runtime: time passes, the one-second timer
\* fires, polls come back with a result or an error, and the user works the
\* picker, the Interfaces tab and the loopback filter.
LegacyIfaceInfo(name) ==
    [Name |-> name, IsUp |-> TRUE, Kind |-> ClassifyIface(name),
     RxBps |-> Frac(TagRx(name), 1), TxBps |-> Frac(TagTx(name), 1)]
LegacySnaps ==
    {[Ifaces |-> [i \in DOMAIN ifs |-> LegacyIfaceInfo(ifs[i])], TakenAt |-> 1] :
        ifs \in IfsChoices}
LegacyKeys == {"i", "enter", "esc", "down", "2", "l"}

\* What a poll of kind k can send back (lines 107-140).
LegacyTaskResults(k) ==
    CASE k = "sample" ->
            {[kind |-> "err", err |-> "sample"]}
                \cup {[kind |-> "snap", snap |-> snap] : snap \in LegacySnaps}
      [] k = "ports" ->
            {[kind |-> "err", err |-> "ports"]}
                \cup {[kind |-> "ports", ports |-> p] : p \in PortsChoices}
      [] k = "procs" ->
            {[kind |-> "err", err |-> "procs"]}
                \cup {[kind |-> "procs", procs |-> p] : p \in ProcsChoices}
      [] OTHER -> {}

\* The loop of the earlier ui is between two Update calls, and running.
LegacyIdle == legacy.call = NoLegacyCall /\ ~legacy.quit

\* The loop hands msg to Update and keeps the model and command it returns;
\* r is the runtime once the message has left it.
LegacyHandle(msg, r) ==
    LET u == LegacyUpdate(legacy.m, msg, now)
    IN legacy' = [legacy EXCEPT !.m = u.m,
                                !.call = [msg |-> msg, before |-> legacy.m, cmd |-> u.cmd],
                                !.rt = r]

\* Time passes between two Update calls, on the longer clock.
LegacyClockTick ==
    /\ LegacyIdle
    /\ now < MaxCadenceClock
    /\ now' = now + 1
    /\ UNCHANGED <<last, lastAt, ret, prev, base, uiVars>>
\* The one-second timer at place i fires and its tickMsg is handled.
LegacyTickMsg ==
    /\ LegacyIdle
    /\ \E i \in DOMAIN legacy.rt.ticks :
          /\ legacy.rt.ticks[i] <= now
          /\ LegacyHandle([kind |-> "tick"], [legacy.rt EXCEPT !.ticks = RemoveAt(@, i)])
    /\ UNCHANGED <<model, call, hlog, clamp, rt, view, probe, samplerVars>>
\* A poll task finishes and the message it sends is handled.
LegacyTaskMsg ==
    /\ LegacyIdle
    /\ \E k \in {"sample", "ports", "procs"} :
          /\ legacy.rt.tasks[k] > 0
          /\ \E msg \in LegacyTaskResults(k) :
                LegacyHandle(msg, [legacy.rt EXCEPT !.tasks[k] = @ - 1])
    /\ UNCHANGED <<model, call, hlog, clamp, rt, view, probe, samplerVars>>
LegacyKeyMsg ==
    /\ LegacyIdle
    /\ \E k \in LegacyKeys : LegacyHandle([kind |-> "key", key |-> k], legacy.rt)
    /\ UNCHANGED <<model, call, hlog, clamp, rt, view, probe, samplerVars>>
\* The runtime starts the command Update returned, or ends the program on
\* tea.Quit; the call is over.
LegacyRun ==
    /\ legacy.call # NoLegacyCall
    /\ legacy' = [legacy EXCEPT
                    !.call = NoLegacyCall,
                    !.quit = CountOf(legacy.call.cmd, "quit") > 0,
                    !.rt = Start(legacy.rt, legacy.call.cmd, now, MaxCadenceClock)]
    /\ UNCHANGED <<model, call, hlog, clamp, rt, view, probe, samplerVars>>

LegacyNext == LegacyClockTick \/ LegacyTickMsg \/ LegacyTaskMsg \/ LegacyKeyMsg \/ LegacyRun

SpecLegacy == Init /\ [][LegacyNext]_vars

\* Sample() as the goroutines of refreshCmd run it (lines 148-156): the
\* runtime runs every command on a goroutine of its own, all of them calling
\* Sample() on the one *NetSampler the model copies share; each read and each
\* write of s.last and s.lastAt is a step of its own.
RaceCounters == {c \in CounterChoices : DOMAIN c = {"lo"}}

\* Another goroutine has written s.last and is writing s.lastAt.
Writing(t) == \E u \in RaceTasks \ {t} : rt.runs[u].pc = "wroteLast"

\* What an unsynchronised read of the three-word s.lastAt may return: its
\* value, or, while another goroutine is writing, any mix of old and new.
ReadLastAt(t) == IF Writing(t) THEN ZeroTime..now ELSE {lastAt}

MaxRaceClock == 3
RaceClockTick ==
    /\ ret = NoRet
    /\ now < MaxRaceClock
    /\ now' = now + 1
    /\ UNCHANGED <<last, lastAt, ret, prev, base, uiVars>>
\* now := time.Now(); net.Interfaces(); gnet.IOCounters(true)  (lines 45-69)
RaceBegin ==
    /\ ret = NoRet
    /\ \E t \in RaceTasks, cur \in RaceCounters :
          /\ rt.runs[t].pc = "idle"
          /\ rt' = [rt EXCEPT !.runs[t] = [NoRun EXCEPT !.pc = "began", !.t0 = now, !.cur = cur]]
    /\ UNCHANGED <<samplerVars, model, call, hlog, clamp, view, probe, legacy>>
\* dt := now.Sub(s.lastAt).Seconds(); prev, ok2 := s.last[nif.Name]
\* (lines 71-97)
RaceRead ==
    /\ ret = NoRet
    /\ \E t \in RaceTasks :
          /\ rt.runs[t].pc = "began"
          /\ \E at \in ReadLastAt(t) :
                rt' = [rt EXCEPT !.runs[t].pc = "computed",
                                 !.runs[t].at = at, !.runs[t].lst = last]
    /\ UNCHANGED <<samplerVars, model, call, hlog, clamp, view, probe, legacy>>
\* s.last = cur  (line 105)
RaceWriteLast ==
    /\ ret = NoRet
    /\ \E t \in RaceTasks :
          /\ rt.runs[t].pc = "computed"
          /\ last' = rt.runs[t].cur
          /\ rt' = [rt EXCEPT !.runs[t].pc = "wroteLast"]
    /\ UNCHANGED <<now, lastAt, ret, prev, base, model, call, hlog, clamp, view, probe, legacy>>
\* s.lastAt = now  (line 106)
RaceWriteLastAt ==
    /\ ret = NoRet
    /\ \E t \in RaceTasks :
          /\ rt.runs[t].pc = "wroteLast"
          /\ lastAt' = rt.runs[t].t0
          /\ rt' = [rt EXCEPT !.runs[t].pc = "wrote"]
    /\ UNCHANGED <<now, last, ret, prev, base, model, call, hlog, clamp, view, probe, legacy>>
\* return NetSnapshot{...}, nil  (lines 108-113); the goroutine hands the
\* message to the loop, which takes one message at a time.
RaceReturn ==
    /\ ret = NoRet
    /\ \E t \in RaceTasks :
          /\ rt.runs[t].pc = "wrote"
          /\ LET r == rt.runs[t]
                 dt == SampleDt(r.t0, r.at)
             IN ret' = [valid |-> TRUE,
                        snap |-> [Ifaces |-> <<MakeIfaceInfo("lo", r.cur, r.lst, dt)>>,
                                  TakenAt |-> r.t0],
                        err |-> FALSE]
          /\ rt' = [rt EXCEPT !.runs[t] = NoRun]
    /\ UNCHANGED <<now, last, lastAt, prev, base, model, call, hlog, clamp, view, probe, legacy>>

RaceNext ==
    RaceClockTick \/ RaceBegin \/ RaceRead \/ RaceWriteLast \/ RaceWriteLastAt
        \/ RaceReturn \/ SampleReturn

SpecRace == Init /\ [][RaceNext]_vars

\* ------------------------------------------------- claims: rate sampler
\* The latest Sample() succeeded and its result is still held.
Returned == ret.valid /\ ~ret.err

\* The interface at place i of the returned snapshot was also in the counters
\* of the previous successful sample and of this one.
Warm(i) ==
    /\ ret.snap.Ifaces[i].Name \in DOMAIN prev.last
    /\ ret.snap.Ifaces[i].Name \in DOMAIN last

\* Ticks between the previous successful sample and this call.
Elapsed == ret.snap.TakenAt - prev.lastAt

\* rate = delta / (ticks / TicksPerSec), on reduced fractions.
IsQuotient(rate, delta, ticks) == rate.num * ticks = delta * TicksPerSec * rate.den

\* C1: for two consecutive successful samples that both report counters for
\* an interface, with totals T1 then T2 >= T1 and at least one second
\* between them, the returned rate is (T2 - T1) / dt, per direction.
C1_RateComputation ==
    Returned =>
        \A i \in DOMAIN ret.snap.Ifaces :
            LET ii == ret.snap.Ifaces[i]
                t1 == prev.last[ii.Name]
                t2 == last[ii.Name]
            IN (Warm(i) /\ Elapsed >= TicksPerSec) =>
                /\ t2.BytesRecv >= t1.BytesRecv =>
                       IsQuotient(ii.RxBps, t2.BytesRecv - t1.BytesRecv, Elapsed)
                /\ t2.BytesSent >= t1.BytesSent =>
                       IsQuotient(ii.TxBps, t2.BytesSent - t1.BytesSent, Elapsed)

\* C1 witness: totals (0,0) then (1,2) two seconds later give 1/2 and 1 B/s
\* (the documented (1000,2000) -> (3000,6000) example, in units of 2000).
C1_Witness ==
    /\ Returned
    /\ Elapsed = 2 * TicksPerSec
    /\ \E i \in DOMAIN ret.snap.Ifaces :
          /\ Warm(i)
          /\ ret.snap.Ifaces[i].Name = "eth0"
          /\ prev.last["eth0"] = [BytesRecv |-> 0, BytesSent |-> 0]
          /\ last["eth0"] = [BytesRecv |-> 1, BytesSent |-> 2]
          /\ ret.snap.Ifaces[i].RxBps = [num |-> 1, den |-> 2]
          /\ ret.snap.Ifaces[i].TxBps = [num |-> 1, den |-> 1]

C3_ColdStart ==
    Returned =>
        \A i \in DOMAIN ret.snap.Ifaces :
            ret.snap.Ifaces[i].Name \notin DOMAIN prev.last =>
                /\ ret.snap.Ifaces[i].RxBps = ZeroRate
                /\ ret.snap.Ifaces[i].TxBps = ZeroRate

\* C3 witness: an interface absent from the previous successful sample's
\* counters (which had others) comes back with non-zero totals and zero rates.
C3_Witness ==
    /\ Returned
    /\ prev.last # <<>>
    /\ \E i \in DOMAIN ret.snap.Ifaces :
          /\ ret.snap.Ifaces[i].Name \notin DOMAIN prev.last
          /\ ret.snap.Ifaces[i].RxTotal > 0
          /\ ret.snap.Ifaces[i].TxTotal > 0
          /\ ret.snap.Ifaces[i].RxBps = ZeroRate
          /\ ret.snap.Ifaces[i].TxBps = ZeroRate

\* ---------------------------------------------------- claims: selection
\* The names of the snapshot carried by the snapMsg just applied.
SnapNames == {call.msg.snap.Ifaces[i].Name : i \in DOMAIN call.msg.snap.Ifaces}

\* C4: a snapMsg applied while selectedIface = X (non-empty), whose snapshot
\* contains X at any position, leaves selectedIface = X and moves the list
\* cursor to X's new position.
C4_SelectionPersists ==
    (/\ call.msg.kind = "snap"
     /\ call.before.selectedIface # NoName
     /\ call.before.selectedIface \in SnapNames) =>
        /\ model.selectedIface = call.before.selectedIface
        /\ model.ifaceList.index + 1 \in DOMAIN call.msg.snap.Ifaces
        /\ call.msg.snap.Ifaces[model.ifaceList.index + 1].Name
             = call.before.selectedIface

\* C4 witness: eth0 was selected at the first place; the new snapshot has it
\* at the second place, and the cursor is there.
C4_Witness ==
    /\ call.msg.kind = "snap"
    /\ call.before.selectedIface = "eth0"
    /\ call.before.ifaceList.index = 0
    /\ call.before.ifaceList.items = <<"eth0", "lo">>
    /\ model.ifaceList.items = <<"lo", "eth0">>
    /\ model.ifaceList.index = 1
    /\ model.selectedIface = "eth0"

\* C5: after a snapMsg whose snapshot does not contain the previously selected
\* name, selectedIface is the first interface of the new snapshot, or empty
\* if there is none; hence after every snapMsg selectedIface is empty or
\* names an interface of lastSnap.
C5_SelectionReset ==
    call.msg.kind = "snap" =>
        /\ call.before.selectedIface \notin SnapNames =>
              model.selectedIface =
                  IF call.msg.snap.Ifaces # <<>>
                  THEN call.msg.snap.Ifaces[1].Name ELSE NoName
        /\ \/ model.selectedIface = NoName
           \/ \E i \in DOMAIN model.lastSnap.Ifaces :
                 model.lastSnap.Ifaces[i].Name = model.selectedIface

\* C6: in every Update step in which selectedIface changes from a non-empty
\* name to a different one, rxHist and txHist are empty right after it; so
\* the histories never hold a sample taken for another interface than the
\* selected one.
C6_SelectionChangeClearsHistory ==
    /\ (/\ ~Idle
        /\ call.before.selectedIface # NoName
        /\ model.selectedIface # call.before.selectedIface) =>
           (model.rxHist = <<>> /\ model.txHist = <<>>)
    /\ \A i \in DOMAIN model.rxHist :
           model.rxHist[i] = Frac(TagRx(model.selectedIface), 1)
    /\ \A i \in DOMAIN model.txHist :
           model.txHist[i] = Frac(TagTx(model.selectedIface), 1)

\* C6 witness: on the Interfaces tab a cursor key moved the selection from
\* eth0, which had history, to lo, and both histories are empty.
C6_Witness ==
    /\ call.msg.kind = "key"
    /\ call.before.selectedIface = "eth0"
    /\ call.before.rxHist # <<>>
    /\ call.before.txHist # <<>>
    /\ model.selectedIface = "lo"
    /\ model.rxHist = <<>>
    /\ model.txHist = <<>>

\* ------------------------------------------------------ claims: history
\* max(30, min(200, w/2)) read off the claim, with the scaled limits.
CapOf(w) ==
    IF w \div 2 < HistFloor THEN HistFloor
    ELSE IF w \div 2 > HistCeil THEN HistCeil
    ELSE w \div 2

\* The last n elements of s.
LastN(s, n) == SubSeq(s, Len(s) - n + 1, Len(s))

\* C7: after N snapMsg applications that each appended a sample, under one
\* cap, rxHist and txHist have length min(N, cap) and hold exactly the last
\* min(N, cap) appended values in append order, cap = max(30, min(200, w/2));
\* ClampHistory with max <= 0 returns an empty sequence.
C7_HistoryBound ==
    /\ \A w \in hlog.ws :
          (\A v \in hlog.ws : CapOf(v) = CapOf(w)) =>
              LET n == Min(Len(hlog.rx), CapOf(w))
              IN /\ Len(model.rxHist) = n
                 /\ Len(model.txHist) = n
                 /\ model.rxHist = LastN(hlog.rx, n)
                 /\ model.txHist = LastN(hlog.tx, n)
    /\ (clamp.valid /\ clamp.max <= 0) => clamp.out = <<>>

\* C7 witness: more samples were appended than the cap, the oldest one is
\* gone, and ClampHistory(s, 0) of a non-empty history came back empty.
C7_Witness ==
    /\ hlog.ws = {0}
    /\ Len(hlog.rx) = CapOf(0) + 2
    /\ Len(model.rxHist) = CapOf(0)
    /\ model.rxHist[1] # hlog.rx[1]
    /\ model.rxHist[1] # model.rxHist[2]
    /\ clamp.valid /\ clamp.max = 0 /\ clamp.s # <<>> /\ clamp.out = <<>>

\* ------------------------------------------------------- claims: errors
\* The three external-IP fields of a model.
ExternalIPFields(m) == <<m.externalIP, m.externalIPErr, m.externalIPUpdatedAt>>

\* C8: an externalIPMsg that carries an error changes only externalIPErr
\* (err, externalIP and externalIPUpdatedAt stay); snapMsg, portsMsg,
\* procsMsg and errMsg change none of externalIP, externalIPErr and
\* externalIPUpdatedAt; and no message makes a non-empty externalIP empty.
C8_ExternalIPSlot ==
    /\ (call.msg.kind = "extip" /\ call.msg.err # NoErr) =>
          model = [call.before EXCEPT !.externalIPErr = call.msg.err]
    /\ call.msg.kind \in {"snap", "ports", "procs", "err"} =>
          ExternalIPFields(model) = ExternalIPFields(call.before)
    /\ (call # NoCall /\ call.before.externalIP # "") => model.externalIP # ""

\* C8 witness: a failed address check arrives while an address resolved
\* earlier and a poll error are shown; only externalIPErr changes.
C8_Witness ==
    /\ call.msg.kind = "extip"
    /\ call.msg.err # NoErr
    /\ call.before.externalIP # ""
    /\ call.before.externalIPErr = NoErr
    /\ call.before.externalIPUpdatedAt # ZeroTime
    /\ call.before.err # NoErr
    /\ model.externalIPErr = call.msg.err
    /\ model.externalIP = call.before.externalIP
    /\ model.externalIPUpdatedAt = call.before.externalIPUpdatedAt
    /\ model.err = call.before.err

\* Errors of the ports and process-ranking polls.
AuxErrs == {"ports", "procs"}

\* C9: an error of a failed ports or process-ranking poll is still reported
\* after a later successful snapMsg; an errMsg of a ports or process poll
\* leaves a reported sampling error in place, and an errMsg of sampling
\* leaves a reported ports or process error in place.
C9_AuxErrorsIndependent ==
    /\ (call.msg.kind = "snap" /\ call.before.err \in AuxErrs) =>
          model.err = call.before.err
    /\ (call.msg.kind = "err" /\ call.msg.err \in AuxErrs
            /\ call.before.err = "sample") =>
          model.err = "sample"
    /\ (call.msg.kind = "err" /\ call.msg.err = "sample"
            /\ call.before.err \in AuxErrs) =>
          model.err = call.before.err

\* C10: applying an errMsg changes only err: lastSnap, the interface list,
\* selectedIface, rxHist, txHist, ports, procs, both search queries and the
\* external-IP fields are as before, and no command is issued.
C10_ErrMsgOnlyErr ==
    call.msg.kind = "err" =>
        /\ model = [call.before EXCEPT !.err = call.msg.err]
        /\ call.cmd = <<>>

\* C10 witness: a poll fails while a snapshot, history, ports, processes, two
\* applied search queries and a resolved address are held; all are kept.
C10_Witness ==
    /\ call.msg.kind = "err"
    /\ call.before.err # call.msg.err
    /\ call.before.lastSnap.Ifaces # <<>>
    /\ call.before.selectedIface # NoName
    /\ call.before.rxHist # <<>>
    /\ call.before.ports # <<>>
    /\ call.before.procs # <<>>
    /\ call.before.portsQuery # <<>>
    /\ call.before.procsQuery # <<>>
    /\ call.before.externalIP # ""
    /\ model.err = call.msg.err
    /\ model.lastSnap = call.before.lastSnap
    /\ model.rxHist = call.before.rxHist
    /\ model.ports = call.before.ports
    /\ model.portsQuery = call.before.portsQuery

\* ------------------------------------------- claims: sampler failures
\* The latest Sample() succeeded after at least one failed call that followed
\* the successful call before it.
ReturnedAfterFailure ==
    /\ Returned
    /\ base.was # <<>>
    /\ base.was[1].fails > 0

\* C11: a failed Sample() returns the empty snapshot with the error and
\* leaves last and lastAt as they were, so they always are what the latest
\* successful call read; the next successful Sample() after failures computes
\* each rate as the counter delta since the last successful sample over the
\* time elapsed since that sample (one second if none has).
C11_FailureKeepsBaseline ==
    /\ (ret.valid /\ ret.err) =>
          /\ ret.snap = EmptySnapshot
          /\ last = prev.last
          /\ lastAt = prev.lastAt
    /\ last = base.last
    /\ lastAt = base.at
    /\ ReturnedAfterFailure =>
          LET b == base.was[1]
              el == ret.snap.TakenAt - b.at
              ticks == IF el <= 0 THEN TicksPerSec ELSE el
          IN \A i \in DOMAIN ret.snap.Ifaces :
                LET ii == ret.snap.Ifaces[i]
                    t1 == b.last[ii.Name]
                    t2 == last[ii.Name]
                IN (ii.Name \in DOMAIN b.last /\ ii.Name \in DOMAIN last) =>
                      /\ t2.BytesRecv >= t1.BytesRecv =>
                            IsQuotient(ii.RxBps, t2.BytesRecv - t1.BytesRecv, ticks)
                      /\ t2.BytesSent >= t1.BytesSent =>
                            IsQuotient(ii.TxBps, t2.BytesSent - t1.BytesSent, ticks)

\* C11 witness: eth0 read (0,0), then a call failed, then two seconds after
\* the first read eth0 reads (1,2): the rates are 1/2 and 1 B/s.
C11_Witness ==
    /\ ReturnedAfterFailure
    /\ ret.snap.TakenAt - base.was[1].at = 2 * TicksPerSec
    /\ "eth0" \in DOMAIN base.was[1].last
    /\ base.was[1].last["eth0"] = [BytesRecv |-> 0, BytesSent |-> 0]
    /\ \E i \in DOMAIN ret.snap.Ifaces :
          /\ ret.snap.Ifaces[i].Name = "eth0"
          /\ ret.snap.Ifaces[i].RxTotal = 1
          /\ ret.snap.Ifaces[i].TxTotal = 2
          /\ ret.snap.Ifaces[i].RxBps = [num |-> 1, den |-> 2]
          /\ ret.snap.Ifaces[i].TxBps = [num |-> 1, den |-> 1]

\* ------------------------------------------------------ claims: timers
\* C12: at all times exactly one 1-second tick and exactly one 30-second
\* external-IP tick are pending (armed, or returned by Update and about to
\* be armed); handling a tickMsg yields one network sample and one 1-second
\* tick, handling an extIPTickMsg yields one external-IP fetch and one
\* 30-second tick, whatever the tab, search mode and poll results so far; no
\* other message yields a tick of either kind.
C12_SelfReschedulingTimers ==
    /\ Len(rt.ticks) + CountOf(call.cmd, "tick") = 1
    /\ Len(rt.extTicks) + CountOf(call.cmd, "extIPTick") = 1
    /\ call.msg.kind = "tick" =>
          /\ CountOf(call.cmd, "refresh") = 1
          /\ CountOf(call.cmd, "tick") = 1
          /\ CountOf(call.cmd, "extIPTick") = 0
    /\ call.msg.kind = "extiptick" =>
          /\ CountOf(call.cmd, "fetchExternalIP") = 1
          /\ CountOf(call.cmd, "extIPTick") = 1
          /\ CountOf(call.cmd, "tick") = 0
    /\ call.msg.kind \notin {"tick", "extiptick"} =>
          /\ CountOf(call.cmd, "tick") = 0
          /\ CountOf(call.cmd, "extIPTick") = 0

\* C12 witness: a tickMsg is handled on the ports tab with the search open,
\* after a poll failed and while a network sample and an external-IP fetch
\* have not returned; it yields a sample and the next tick.
C12_Witness ==
    /\ call.msg.kind = "tick"
    /\ model.activeTab = tabPorts
    /\ model.portsSearching
    /\ model.err # NoErr
    /\ rt.tasks.sample > 0
    /\ rt.tasks.extip > 0
    /\ rt.ticks = <<>>
    /\ Len(rt.extTicks) = 1
    /\ CountOf(call.cmd, "refresh") = 1
    /\ CountOf(call.cmd, "tick") = 1

\* ----------------------------------------------------- claims: cadence
\* C13: a ports fetch and a process fetch are always dispatched together and
\* only from tickMsg handling (and Init); tick handlings being at least one
\* second apart, with any further delivery latency, no 5 consecutive tick
\* handlings pass without one of them dispatching the ports and process
\* refresh.
C13_PortsProcsCadence ==
    /\ CountOf(call.cmd, "fetchPorts") = CountOf(call.cmd, "fetchProcs")
    /\ CountOf(call.cmd, "fetchPorts") > 0 => call.msg.kind = "tick"
    /\ rt.dry < CadenceWindow

\* ------------------------------------------------- claims: concurrency
\* The goroutine t has read the sampler's baseline and not yet finished
\* writing it.
InBaseline(t) == rt.runs[t].pc \in {"computed", "wroteLast"}

\* C14: a poll task communicates only by the message it returns: a goroutine
\* running Sample() leaves s.last and s.lastAt as it found them, these being
\* written by the message loop only; so no two network-sample tasks in
\* flight at one time are reading or writing the same baseline.
C14_NoSharedWrites ==
    /\ \A t \in RaceTasks :
          rt.runs[t].pc = "wrote" =>
              /\ last = rt.runs[t].lst
              /\ lastAt = rt.runs[t].at
    /\ \A t, u \in RaceTasks : (t # u) => ~(InBaseline(t) /\ InBaseline(u))

\* C15: network updates do not wait for the external-IP lookup: with ticks
\* and sample results delivered fairly, a snapshot is applied again and
\* again, also when an external-IP fetch stays in flight and never delivers.
C15_SnapshotsKeepComing == []<>(call.msg.kind = "snap")

\* C15 witness: at the end of the clock a snapshot is applied while an
\* external-IP fetch is in flight and no external-IP result has ever arrived.
C15_Witness ==
    /\ call.msg.kind = "snap"
    /\ now = MaxClock
    /\ rt.tasks.extip > 0
    /\ model.externalIP = ""
    /\ model.externalIPErr = NoErr
    /\ model.lastSnap.TakenAt # ZeroTime

\* ------------------------------------------------------- claims: quit
\* The poll and timer messages.
PollKinds == {"err", "extip", "snap", "ports", "procs", "tick", "extiptick"}

C17_QKeyQuits ==
    (call.msg.kind = "key" /\ call.msg.key = "q") => CountOf(call.cmd, "quit") > 0

\* ---------------------------------------------------- claims: filtering
\* q is a case-insensitive substring of str.
FoldSubstring(q, str) ==
    \E i \in 0..(Len(str) - Len(q)) :
        \A k \in 1..Len(q) : ToLowerRune(str[i + k]) = ToLowerRune(q[k])

\* The elements of rows whose place is in keep, in the order of rows.
Kept(rows, keep) ==
    LET nth(k) == CHOOSE i \in keep : Cardinality({j \in keep : j < i}) = k - 1
    IN [k \in 1..Cardinality(keep) |-> rows[nth(k)]]

\* The cells the tables show for a stored row.
PortCells(p) ==
    [proto |-> p.Proto, local |-> ShownLocal(p), pid |-> Itoa(p.PID),
     proc |-> ShownProcess(p)]
ProcCells(p) ==
    [pid |-> Itoa(p.PID), name |-> ShownName(p), conns |-> Itoa(p.ConnCount),
     listen |-> Itoa(p.ListenCount)]

\* The rows a render call should have written when match(row, q) tells the
\* rows to keep.
PortsWanted(match(_, _)) ==
    LET ps == view.m.ports
        q == view.m.portsQuery
        keep == {i \in DOMAIN ps : q = <<>> \/ match(ps[i], q)}
    IN [i \in DOMAIN Kept(ps, keep) |-> PortCells(Kept(ps, keep)[i])]
ProcsWanted(match(_, _)) ==
    LET ps == view.m.procs
        q == view.m.procsQuery
        keep == {i \in DOMAIN ps : q = <<>> \/ match(ps[i], q)}
    IN [i \in DOMAIN Kept(ps, keep) |-> ProcCells(Kept(ps, keep)[i])]

\* The match on the stored fields.
PortStoredMatch(p, q) ==
    FoldSubstring(q, p.Local) \/ FoldSubstring(q, p.Process) \/ FoldSubstring(q, p.Proto)
ProcStoredMatch(p, q) ==
    FoldSubstring(q, p.Name) \/ FoldSubstring(q, Itoa(p.PID))
\* The match on the fields as the table shows them.
PortShownMatch(p, q) ==
    FoldSubstring(q, ShownLocal(p)) \/ FoldSubstring(q, ShownProcess(p))
        \/ FoldSubstring(q, p.Proto)
ProcShownMatch(p, q) ==
    FoldSubstring(q, ShownName(p)) \/ FoldSubstring(q, Itoa(p.PID))

AllPortRows(m) == [i \in DOMAIN m.ports |-> PortCells(m.ports[i])]
AllProcRows(m) == [i \in DOMAIN m.procs |-> ProcCells(m.procs[i])]

\* C19: the stored ports change only when a portsMsg is applied and the
\* stored procs only when a procsMsg is applied: no key, whatever the tab
\* and the search mode, changes either; so whenever the applied query is
\* empty, and in particular once ctrl+u has cleared it, the table renders
\* every stored row, in the stored order.
C19_FilteringIsProjection ==
    /\ call # NoCall =>
          /\ model.ports =
                IF call.msg.kind = "ports" THEN call.msg.ports ELSE call.before.ports
          /\ model.procs =
                IF call.msg.kind = "procs" THEN call.msg.procs ELSE call.before.procs
    /\ (call.msg.kind = "key" /\ call.msg.key = "ctrl+u"
            /\ call.before.activeTab = tabPorts /\ ~call.before.portsSearching) =>
          model.portsQuery = <<>>
    /\ (call.msg.kind = "key" /\ call.msg.key = "ctrl+u"
            /\ call.before.activeTab = tabProcs /\ ~call.before.procsSearching) =>
          model.procsQuery = <<>>
    /\ model.portsQuery = <<>> => renderPortsText(model).rows = AllPortRows(model)
    /\ model.procsQuery = <<>> => renderProcsText(model).rows = AllProcRows(model)

\* C19 witness: ctrl+u clears an applied ports query that hid stored rows,
\* and the table shows every stored row again.
C19_Witness ==
    /\ call.msg.kind = "key" /\ call.msg.key = "ctrl+u"
    /\ call.before.portsQuery # <<>>
    /\ call.before.ports # <<>>
    /\ Len(renderPortsText(call.before).rows) < Len(call.before.ports)
    /\ model.portsQuery = <<>>
    /\ model.ports = call.before.ports
    /\ Len(renderPortsText(model).rows) = Len(model.ports)

RankedPids == {pid \in ConnPids : pid > 0 /\ probe.conns[pid].n > 0}

\* a stands before b in the ranking: more connections, or as many and a
\* smaller pid.
RanksBefore(a, b) ==
    \/ probe.conns[a].n > probe.conns[b].n
    \/ probe.conns[a].n = probe.conns[b].n /\ a < b

\* C21: the list TopProcsByConnections returns is sorted by connection
\* count descending, ties by pid ascending; holds each pid > 0 at most once,
\* with ConnCount the number of its connections and ListenCount <= ConnCount
\* the number of them listening; and holds the first min(limit, n) entries
\* of the full ranking of the n pids when limit > 0, all n otherwise.
C21_ProcessRanking ==
    (probe.pc = "done" /\ ~probe.err) =>
        LET out == probe.out
            n == Cardinality(RankedPids)
            in == {out[i].PID : i \in DOMAIN out}
        IN /\ \A i, j \in DOMAIN out : i < j => RanksBefore(out[i].PID, out[j].PID)
           /\ \A i, j \in DOMAIN out : out[i].PID = out[j].PID => i = j
           /\ \A i \in DOMAIN out :
                 /\ out[i].PID \in RankedPids
                 /\ out[i].ConnCount = probe.conns[out[i].PID].n
                 /\ out[i].ListenCount = probe.conns[out[i].PID].listen
                 /\ out[i].ListenCount <= out[i].ConnCount
           /\ Len(out) = IF probe.limit > 0 /\ probe.limit < n THEN probe.limit ELSE n
           /\ \A a \in in, b \in RankedPids \ in : RanksBefore(a, b)

\* C21 witness: counts 3, 3, 1 for the pids 50, 10, 99 give 10, 50, 99.
C21_Witness ==
    /\ probe.pc = "done" /\ ~probe.err
    /\ probe.conns[50].n = 3 /\ probe.conns[10].n = 3 /\ probe.conns[99].n = 1
    /\ Len(probe.out) = 3
    /\ probe.out[1].PID = 10 /\ probe.out[2].PID = 50 /\ probe.out[3].PID = 99

\* --------------------------------------------------- claims: highlighting
\* The pieces of str when the leftmost non-overlapping occurrences of lq,
\* compared by lower-cased code point, are the marked ones.
RECURSIVE MarkedByCodePoint(_, _)
MarkedByCodePoint(str, lq) ==
    LET n == Len(lq)
        at == {j \in 0..(Len(str) - n) : ToLower(SubSeq(str, j + 1, j + n)) = lq}
    IN IF at = {} THEN WritePlain(str)
       ELSE LET j == CHOOSE x \in at : \A y \in at : x <= y
            IN WritePlain(SubSeq(str, 1, j)) \o WriteMarked(SubSeq(str, j + 1, j + n))
                   \o MarkedByCodePoint(SubSeq(str, j + n + 1, Len(str)), lq)

\* The written pieces with the marks removed.
RECURSIVE Unmarked(_)
Unmarked(segs) == IF segs = <<>> THEN <<>> ELSE Head(segs).text \o Unmarked(Tail(segs))

\* C22: for every text and query highlightFold returns, its output without
\* the marks is the text, and the marked pieces are the leftmost
\* non-overlapping case-insensitive occurrences of the trimmed query,
\* found by code point.
C22_HighlightByCodePoint ==
    (view.valid /\ view.table = "highlight") =>
        LET tq == ToLower(TrimSpace(view.m.q))
        IN /\ view.out.status = "ok"
           /\ Unmarked(view.out.segs) = view.m.s
           /\ view.out.segs =
                 IF tq = <<>> THEN WritePlain(view.m.s)
                 ELSE MarkedByCodePoint(view.m.s, tq)

\* --------------------------------------------- claims: reconciliation
\* C23: a snapMsg applied while the selected name is absent from its
\* snapshot and the previous cursor position is within the new collection
\* makes the selection the interface now at that position.
C23_PositionalFallback ==
    (/\ call.msg.kind = "snap"
     /\ call.before.selectedIface # NoName
     /\ call.before.selectedIface \notin SnapNames
     /\ call.before.ifaceList.index >= 0
     /\ call.before.ifaceList.index < Len(call.msg.snap.Ifaces)) =>
        model.selectedIface =
            call.msg.snap.Ifaces[call.before.ifaceList.index + 1].Name

\* new is old, or old with one more sample, clamped to the cap of width w.
HistoryKept(old, new, w) ==
    \/ new = old
    \/ new # <<>> /\ new = ClampHistory(Append(old, new[Len(new)]), MaxHist(w))

\* C24: a snapMsg carrying the snapshot the model already holds (the same
\* snapshot applied a second time) leaves selectedIface, the list items and
\* the list cursor as the first application left them, clears no history
\* (each buffer is kept, or gets its one sample for the selected interface)
\* and returns no command.
C24_ReconcileIdempotent ==
    (call.msg.kind = "snap" /\ call.before.lastSnap = call.msg.snap) =>
        /\ model.selectedIface = call.before.selectedIface
        /\ model.ifaceList = call.before.ifaceList
        /\ model.lastSnap = call.before.lastSnap
        /\ HistoryKept(call.before.rxHist, model.rxHist, model.w)
        /\ HistoryKept(call.before.txHist, model.txHist, model.w)
        /\ call.cmd = <<>>

\* C24 witness: the snapshot [lo, eth0] is applied again while eth0, its
\* second interface, is selected and has history: the selection and the
\* cursor stay, and the history gets one more sample.
C24_Witness ==
    /\ call.msg.kind = "snap" /\ call.before.lastSnap = call.msg.snap
    /\ Len(call.msg.snap.Ifaces) = 2
    /\ call.before.selectedIface = "eth0"
    /\ call.before.ifaceList.index = 1
    /\ Len(call.before.rxHist) = 1
    /\ model.selectedIface = "eth0"
    /\ model.ifaceList.index = 1
    /\ Len(model.rxHist) = 2

\* ------------------------------------------------- claims: data slices
\* The fields each kind of data message may write.
SliceOf(kind) ==
    CASE kind = "snap" ->
            {"lastSnap", "err", "ifaceList", "selectedIface", "rxHist", "txHist"}
      [] kind = "ports" -> {"ports", "portsText"}
      [] kind = "procs" -> {"procs", "procsText"}
      [] kind = "extip" -> {"externalIP", "externalIPErr", "externalIPUpdatedAt"}
DataKinds == {"snap", "ports", "procs", "extip"}

\* The data messages a poll can deliver, and the clock readings of two
\* Update calls.
DataMsgs ==
    {[kind |-> "snap", snap |-> snap] : snap \in TaggedSnaps}
        \cup {[kind |-> "ports", ports |-> ps] : ps \in PortsChoices}
        \cup {[kind |-> "procs", procs |-> ps] : ps \in ProcsChoices}
        \cup FetchExternalIP
CallTimes == {now, now + 1}

\* Update(msg) at clock reading t, as a function of the model.
Apply(m, msg, t) == Update(m, msg, t).m

\* C25: a snapMsg writes only lastSnap, err, the interface list, the
\* selection and the histories, a portsMsg only ports, a procsMsg only procs,
\* an externalIPMsg only externalIP, externalIPErr and externalIPUpdatedAt;
\* and from every state two data messages of different kinds, each applied
\* at its own clock reading, give the same model in either order.
C25_DataKindsCommute ==
    /\ call.msg.kind \in DataKinds =>
          \A f \in DOMAIN model \ SliceOf(call.msg.kind) : model[f] = call.before[f]
    /\ Idle =>
          \A a \in DataMsgs, ta \in CallTimes :
              LET ma == Apply(model, a, ta)
              IN \A b \in {x \in DataMsgs : x.kind # a.kind}, tb \in CallTimes :
                     Apply(ma, b, tb) = Apply(Apply(model, b, tb), a, ta)

\* C25 witness: a snapMsg is applied over an error, with ports, processes
\* and an external address already stored: it clears the error, appends to
\* the history and leaves the three other slices as they were.
C25_Witness ==
    /\ call.msg.kind = "snap"
    /\ call.before.err # NoErr /\ model.err = NoErr
    /\ model.rxHist # call.before.rxHist
    /\ model.ports # <<>> /\ model.ports = call.before.ports
    /\ model.procs # <<>> /\ model.procs = call.before.procs
    /\ model.externalIP # "" /\ model.externalIP = call.before.externalIP

\* ------------------------------------------------ claims: history frame
\* C26: in every state rxHist and txHist are no longer than the cap for the
\* current width, max(30, min(200, w/2)); so they are right after a
\* WindowSizeMsg is applied.
C26_CapReappliedOnResize ==
    /\ Len(model.rxHist) <= CapOf(model.w)
    /\ Len(model.txHist) <= CapOf(model.w)

\* The places of the snapshot just applied that hold the interface selected
\* after the call.
SelectedInSnap ==
    {i \in DOMAIN call.msg.snap.Ifaces :
        call.msg.snap.Ifaces[i].Name = model.selectedIface}

\* C27: a snapMsg whose snapshot holds the selected interface appends that
\* interface's RxBps to rxHist and its TxBps to txHist, one sample each
\* (the buffers then being clamped to the cap); a snapMsg whose snapshot
\* does not hold it leaves both buffers as they were; and no other message
\* adds a sample: it leaves the buffers as they were or empties them.
C27_AppendOnlyForSelected ==
    /\ (call.msg.kind = "snap" /\ SelectedInSnap # {}) =>
          LET ii == call.msg.snap.Ifaces[CHOOSE i \in SelectedInSnap : TRUE]
          IN /\ model.rxHist =
                   ClampHistory(Append(call.before.rxHist, ii.RxBps), CapOf(model.w))
             /\ model.txHist =
                   ClampHistory(Append(call.before.txHist, ii.TxBps), CapOf(model.w))
    /\ (call.msg.kind = "snap" /\ SelectedInSnap = {}) =>
          (model.rxHist = call.before.rxHist /\ model.txHist = call.before.txHist)
    /\ (call # NoCall /\ call.msg.kind # "snap") =>
          /\ model.rxHist \in {call.before.rxHist, <<>>}
          /\ model.txHist \in {call.before.txHist, <<>>}

\* C27 witness: with lo selected, the snapshot [eth0, lo] adds lo's sample,
\* not eth0's, to a history that had one.
C27_Witness ==
    /\ call.msg.kind = "snap"
    /\ Len(call.msg.snap.Ifaces) = 2
    /\ call.msg.snap.Ifaces[1].Name = "eth0"
    /\ model.selectedIface = "lo"
    /\ Len(call.before.rxHist) = 1
    /\ model.rxHist = Append(call.before.rxHist, Frac(TagRx("lo"), 1))
    /\ model.txHist = Append(call.before.txHist, Frac(TagTx("lo"), 1))

\* The interface a sample of the selection specification was taken for.
RxOwner(x) == CHOOSE n \in Names : x = Frac(TagRx(n), 1)
TxOwner(x) == CHOOSE n \in Names : x = Frac(TagTx(n), 1)

\* C28: in every state rxHist and txHist have the same length, and their
\* samples at the same place were taken from the same interface; an Update
\* call empties both or neither.
C28_HistoriesInLockstep ==
    /\ Len(model.rxHist) = Len(model.txHist)
    /\ \A i \in DOMAIN model.rxHist :
           i \in DOMAIN model.txHist =>
               RxOwner(model.rxHist[i]) = TxOwner(model.txHist[i])
    /\ call # NoCall =>
           ((model.rxHist = <<>> /\ call.before.rxHist # <<>>)
               <=> (model.txHist = <<>> /\ call.before.txHist # <<>>))

\* C28 witness: a snapMsg appends to two full buffers, and both are
\* clamped to the cap.
C28_Witness ==
    /\ call.msg.kind = "snap"
    /\ SelectedInSnap # {}
    /\ Len(call.before.rxHist) = CapOf(model.w)
    /\ Len(call.before.txHist) = CapOf(model.w)
    /\ Len(model.rxHist) = CapOf(model.w)
    /\ Len(model.txHist) = CapOf(model.w)

\* ------------------------------------------- claims: external-IP fetch
\* The external-IP fetches among the commands the latest Update call
\* returned.
Fetches == CountOf(call.cmd, "fetchExternalIP")

\* The latest Update call handed its message to the Interfaces tab's list,
\* whose selected item was an interface other than selectedIface.
FollowedList ==
    /\ call.msg.kind = "key"
    /\ call.msg.key \notin {"ctrl+c", "q", "tab", "right", "shift+tab", "left", "ctrl+e"}
    /\ call.before.activeTab = tabIfaces
    /\ ListSelectedItem(model.ifaceList) \notin {NoName, call.before.selectedIface}

\* C29: Init dispatches one external-IP fetch; an Update call dispatches
\* one exactly when its message is an extIPTickMsg or the key ctrl+e, or
\* when it is handled on the Interfaces tab with the list's selected item
\* differing from selectedIface, which then becomes that item; every other
\* call, whether or not it changes selectedIface, dispatches none.
C29_FetchOnSelectionChange ==
    /\ CountOf(ModelInit, "fetchExternalIP") = 1
    /\ call # NoCall =>
          /\ Fetches =
                IF \/ call.msg.kind = "extiptick"
                   \/ call.msg.kind = "key" /\ call.msg.key = "ctrl+e"
                   \/ FollowedList
                THEN 1 ELSE 0
          /\ FollowedList =>
                /\ model.selectedIface = ListSelectedItem(model.ifaceList)
                /\ model.selectedIface # call.before.selectedIface
          /\ (call.msg.kind = "key" /\ call.before.activeTab = tabIfaces
                 /\ model.selectedIface # call.before.selectedIface) => FollowedList

\* C29 witness: on the Interfaces tab the key "down" moves the cursor from
\* eth0 to lo; the selection follows and one fetch is dispatched.
C29_Witness ==
    /\ call.msg.kind = "key" /\ call.msg.key = "down"
    /\ call.before.activeTab = tabIfaces
    /\ call.before.selectedIface = "eth0"
    /\ model.selectedIface = "lo"
    /\ Fetches = 1

\* ---------------------------------------------- claims: clearing a query
\* C30: ctrl+u on the Ports tab outside editing empties the applied query
\* and the search input and stores the table of all stored ports, which is
\* the table on the screen; inside editing it empties the search input
\* only: editing goes on and the applied query and the stored table stay;
\* the same on the Processes tab; on the other tabs ctrl+u changes no
\* query.  In no case does it touch the other table's query.
C30_CtrlUClearsQuery ==
    (call.msg.kind = "key" /\ call.msg.key = "ctrl+u") =>
        LET b == call.before
        IN /\ (b.activeTab = tabPorts /\ ~b.portsSearching) =>
                 /\ model.portsQuery = <<>>
                 /\ model.portsSearch.value = <<>>
                 /\ ~model.portsSearching
                 /\ model.ports = b.ports
                 /\ model.portsText.written
                 /\ model.portsText.rows = AllPortRows(model)
                 /\ ShownPortsText(model) = model.portsText
           /\ (b.activeTab = tabProcs /\ ~b.procsSearching) =>
                 /\ model.procsQuery = <<>>
                 /\ model.procsSearch.value = <<>>
                 /\ ~model.procsSearching
                 /\ model.procs = b.procs
                 /\ model.procsText.written
                 /\ model.procsText.rows = AllProcRows(model)
                 /\ ShownProcsText(model) = model.procsText
           /\ (b.activeTab = tabPorts /\ b.portsSearching) =>
                 /\ model.portsSearch.value = <<>>
                 /\ model.portsSearching
                 /\ model.portsQuery = b.portsQuery
                 /\ model.portsText = b.portsText
           /\ (b.activeTab = tabProcs /\ b.procsSearching) =>
                 /\ model.procsSearch.value = <<>>
                 /\ model.procsSearching
                 /\ model.procsQuery = b.procsQuery
                 /\ model.procsText = b.procsText
           /\ b.activeTab # tabPorts =>
                 /\ model.portsQuery = b.portsQuery
                 /\ model.portsSearch = b.portsSearch
                 /\ model.portsText = b.portsText
           /\ b.activeTab # tabProcs =>
                 /\ model.procsQuery = b.procsQuery
                 /\ model.procsSearch = b.procsSearch
                 /\ model.procsText = b.procsText

\* C30 witness: on the Processes tab, outside editing, ctrl+u clears the
\* applied query "a", which hid the stored process, and the stored table
\* shows it again.
C30_Witness ==
    /\ call.msg.kind = "key" /\ call.msg.key = "ctrl+u"
    /\ call.before.activeTab = tabProcs /\ ~call.before.procsSearching
    /\ call.before.procsQuery = <<"a">>
    /\ call.before.procs # <<>>
    /\ call.before.procsText.written /\ call.before.procsText.rows = <<>>
    /\ model.procsQuery = <<>>
    /\ model.procsSearch.value = <<>>
    /\ Len(model.procsText.rows) = Len(model.procs)

\* --------------------------------------------- claims: counters going back
\* rate <= bound / (ticks / TicksPerSec), on a reduced fraction.
AtMostQuotient(rate, bound, ticks) == rate.num * ticks <= bound * TicksPerSec * rate.den

\* C33: for two consecutive successful samples that both report counters for
\* an interface, whichever way the total moved, the returned rate is not
\* negative and is at most max(current total, previous total) / dt, per
\* direction.
C33_RatesBoundedOnDecrease ==
    Returned =>
        \A i \in DOMAIN ret.snap.Ifaces :
            LET ii == ret.snap.Ifaces[i]
                t1 == prev.last[ii.Name]
                t2 == last[ii.Name]
                dt == SampleDt(ret.snap.TakenAt, prev.lastAt)
            IN Warm(i) =>
                /\ ii.RxBps.num >= 0 /\ ii.RxBps.den > 0
                /\ ii.TxBps.num >= 0 /\ ii.TxBps.den > 0
                /\ AtMostQuotient(ii.RxBps, Max(t2.BytesRecv, t1.BytesRecv), dt)
                /\ AtMostQuotient(ii.TxBps, Max(t2.BytesSent, t1.BytesSent), dt)

\* ------------------------------------------- claims: editing and the tabs
\* The key just handled was a printable one, typed while the search of the
\* then active tab was being edited and its input had room for it.
TypedInPortsSearch ==
    /\ call.msg.kind = "key" /\ call.msg.key \in Runes
    /\ call.before.activeTab = tabPorts /\ call.before.portsSearching
    /\ Len(call.before.portsSearch.value) < InputLimit
TypedInProcsSearch ==
    /\ call.msg.kind = "key" /\ call.msg.key \in Runes
    /\ call.before.activeTab = tabProcs /\ call.before.procsSearching
    /\ Len(call.before.procsSearch.value) < InputLimit

\* C34: in every state portsSearching implies that the Ports tab is active
\* and procsSearching that the Processes tab is; and every printable key
\* typed while a search is being edited, "q" and "/" among them, is appended
\* to that search's input.
C34_EditingConfinedToTab ==
    /\ model.portsSearching => model.activeTab = tabPorts
    /\ model.procsSearching => model.activeTab = tabProcs
    /\ TypedInPortsSearch =>
          model.portsSearch.value = Append(call.before.portsSearch.value, call.msg.key)
    /\ TypedInProcsSearch =>
          model.procsSearch.value = Append(call.before.procsSearch.value, call.msg.key)

\* ------------------------------------------------ claims: the earlier ui
\* C31: in the earlier ui, in every mode, the picker being open included,
\* every tickMsg makes Update return one re-armed tick and one network
\* sample, and every snapMsg, errMsg, portsMsg and procsMsg is applied to the
\* model; and while the program runs, between two Update calls a tick is
\* always pending.
C31_LegacyKeepsPolling ==
    LET c == legacy.call
        m == legacy.m
    IN /\ c.msg.kind = "tick" =>
             /\ CountOf(c.cmd, "tick") = 1
             /\ CountOf(c.cmd, "refresh") = 1
       /\ c.msg.kind = "snap" => m.lastSnap = c.msg.snap /\ m.err = NoErr
       /\ c.msg.kind = "err" => m.err = c.msg.err
       /\ c.msg.kind = "ports" => m.ports = c.msg.ports
       /\ c.msg.kind = "procs" => m.procs = c.msg.procs
       /\ LegacyIdle => legacy.rt.ticks # <<>>

\* The Update call of the earlier ui that is in progress changed the
\* selection from one interface to another.
LegacySelectionChanged ==
    /\ legacy.call # NoLegacyCall
    /\ legacy.call.before.selectedIface # NoName
    /\ legacy.m.selectedIface # legacy.call.before.selectedIface

\* C32: in the earlier ui, whenever an Update call changes selectedIface from
\* an interface A to another interface B, be it by enter or by the snapshot
\* handling that falls back to the first interface when A is gone, rxHist and
\* txHist hold no sample taken for A after the call, the first sample for B
\* included or not.
C32_LegacyClearsOnChange ==
    LegacySelectionChanged =>
        /\ Frac(TagRx(legacy.call.before.selectedIface), 1) \notin Range(legacy.m.rxHist)
        /\ Frac(TagTx(legacy.call.before.selectedIface), 1) \notin Range(legacy.m.txHist)

====
